---------------------------- MODULE Spec2Model ----------------------------
(***************************************************************************)
(* Verification model of the intcode engines of aoc-2019 and of the        *)
(* programs around them.                                                   *)
(*                                                                         *)
(*   day2/src/main.rs   Add, Mul and Exit over a fixed tape of usize; main *)
(*                      with its sweep over noun and verb                  *)
(*   day5/src/main.rs   adds parameter modes, I/O, jumps and comparisons   *)
(*   day9/src/main.rs   adds relative addressing and a tape that grows on  *)
(*                      writes                                             *)
(*   day11/src/main.rs  the painter: a brain and the thread of             *)
(*                      track_painter joined by two channels               *)
(*   day3/src/main.rs   Runner, which turns routes into segments           *)
(*   day6/src/main.rs   Node::merge on trees of named nodes                *)
(*   day4/src/main.rs   is_valid and is_valid2 on the digits of a password *)
(*   day1/src/main.rs   fuel_for and the loop of all_fuel_for              *)
(*                                                                         *)
(* Spec runs one program once, RunsSpec runs programs repeatedly (the same *)
(* program twice, the mains of day2 and day11), WideSpec runs day9 on      *)
(* values beyond 64 bits, RunnerSpec follows routes, CoupledSpec runs the  *)
(* painter's two threads under fair scheduling, TreeSpec merges trees,     *)
(* PasswordSpec checks passwords and FuelSpec runs all_fuel_for.           *)
(*                                                                         *)
(* One action is one iteration of the loop of Program::run: decode the     *)
(* instruction at the counter from the tape, execute it, move the counter. *)
(* A panic of the code ends the run in status "fatal"; the variables then  *)
(* hold what the code had changed before the panic.                        *)
(*                                                                         *)
(* Tapes are sequences: the code's mem[i] is mem[i + 1] here (see At).     *)
(* Strings are sequences of one-character strings, so that trim, parse and *)
(* format are computed and not assumed.                                    *)
(***************************************************************************)
EXTENDS Integers, Sequences, FiniteSets, TLC

VARIABLES
    engine,     \* which of the engines runs: "day2", "day5", "day9", "day11"
                \* (the brain of the painter) or "none"
    program,    \* the parsed program the run was started from
    script,     \* the strings MockIo::with_input was given
    mem,        \* Program.mem
    ctr,        \* Program.ctr
    rel,        \* Program.rel
    status,     \* "running", "halted" (run returned) or "fatal" (panic);
                \* "stopped" (a piped write failed); "parsed" and "done"
                \* (main of day2 before its first and after its last run)
    input,      \* MockIo.input
    output,     \* MockIo.output
    prev,       \* the engine state before the last iteration of run's loop
    harness,    \* what starts the runs: "test", "twice", "day2", "day11",
                \* "repaint", "wide", "runner", "day6", "day4" or "day1"
    run,        \* the number of the run in progress, from 1
    first,      \* what the first run left behind, once a second one has started
    noun,       \* day2 main: the noun of the run in progress
    verb,       \* day2 main: the verb of the run in progress
    init,       \* day11: the color Painter::run was given
    toBrain,    \* day11: the channel (tx1, rx1), tracker to brain
    toTracker,  \* day11: the channel (tx2, rx2), brain to tracker
    tpc,        \* day11: where track_painter stands
    direction,  \* day11: track_painter's direction
    visited,    \* day11: track_painter's visited
    pos,        \* day11: track_painter's pos
    color,      \* day11: track_painter's color, between its two receives
    pairs,      \* day11: the (color, turn) pairs track_painter has handled
    sent,       \* day11: the sends track_painter has called, in order
    reads,      \* day11: the texts the brain has read, in order
    painted,    \* day11: what Painter::run has come to
    path,       \* day3: Runner.path
    cursor,     \* day3: Runner.cursor
    routes,     \* day3: the routes Runner::follow was called with, in order
    tree,       \* day6: the Node merge is called on
    call,       \* day6: the last call of merge: its arguments before and after
    password,   \* day4: the u32 is_valid and is_valid2 are called on
    valid,      \* day4: what is_valid and is_valid2 returned
    mass,       \* day1: the argument of all_fuel_for
    sum,        \* day1: all_fuel_for's sum
    last_sum,   \* day1: all_fuel_for's last_sum
    fpc         \* day1: where all_fuel_for stands

vmVars      == <<engine, program, script, mem, ctr, rel, status, input, output, prev>>
harnessVars == <<harness, run, first, noun, verb>>
painterVars == <<init, toBrain, toTracker, tpc, direction, visited, pos, color,
                 pairs, sent, reads, painted>>
runnerVars  == <<path, cursor, routes>>
treeVars    == <<tree, call>>
passwordVars == <<password, valid>>
fuelVars    == <<mass, sum, last_sum, fpc>>
\* what the engines, their harnesses and the painter leave alone
restVars    == <<runnerVars, treeVars, passwordVars, fuelVars>>

vars == <<vmVars, harnessVars, painterVars, restVars>>

----------------------------------------------------------------------------
(* Bounds of the model *)

\* parameters of generated instructions range over -NegParam .. MaxParam
NegParam == 2
MaxParam == 6
\* the relative base set up by the first instruction of a prefixed program
MaxBase == 2
\* the run loop is not followed beyond this many outputs / this relative base
MaxOut == 16
MaxRel == 17

----------------------------------------------------------------------------
(* Machine integers *)

\* usize and isize are 64 bits wide in the code.  The model checker's
\* integers are narrower, so the width is scaled down: every tape length,
\* address and value of the model is far below UsizeWidth bits.
UsizeWidth == 20
UsizeModulus == 2 ^ UsizeWidth

\* `v as usize`: the value modulo the width (a negative value wraps to the top)
AsUsize(v) == v % UsizeModulus

\* `v as isize`: the value modulo the width, read as two's complement
AsIsize(v) ==
    LET u == v % UsizeModulus
    IN  IF u >= UsizeModulus \div 2 THEN u - UsizeModulus ELSE u

\* Rust's `a % b` for b > 0: the remainder has the sign of a
Rem(a, b) == IF a >= 0 THEN a % b ELSE -((-a) % b)

\* the longest Vec<i128> the allocator accepts: isize::MAX bytes of 16-byte words
MaxVecLen == (UsizeModulus \div 2) \div 16

\* the code's mem[i]
At(m, i) == m[i + 1]

\* Zeros with the new cells holding what an earlier run has left in the
\* allocation
Zeros_Stale(n) == [i \in 1..n |-> run - 1]

Zeros(n) == [i \in 1..n |-> 0]

----------------------------------------------------------------------------
(* Strings: format!("{}", v), str::trim, str::parse::<i128> *)

DigitChars == <<"0", "1", "2", "3", "4", "5", "6", "7", "8", "9">>

RECURSIVE Digits(_)
Digits(n) ==
    IF n < 10 THEN <<DigitChars[n + 1]>>
    ELSE Digits(n \div 10) \o <<DigitChars[(n % 10) + 1]>>

\* format!("{}", v) of an integer
Format(v) == IF v < 0 THEN <<"-">> \o Digits(-v) ELSE Digits(v)

IsSpace(c) == c \in {" ", "\n", "\t", "\r"}

RECURSIVE TrimStart(_)
TrimStart(s) ==
    IF s # <<>> /\ IsSpace(Head(s)) THEN TrimStart(Tail(s)) ELSE s

RECURSIVE TrimEnd(_)
TrimEnd(s) ==
    IF s # <<>> /\ IsSpace(s[Len(s)]) THEN TrimEnd(SubSeq(s, 1, Len(s) - 1)) ELSE s

\* str::trim removing leading whitespace only
Trim_StartOnly(s) == TrimStart(s)

\* str::trim
Trim(s) == TrimEnd(TrimStart(s))

DigitValue(c) == CHOOSE d \in 0..9 : DigitChars[d + 1] = c

IsDigit(c) == \E d \in 0..9 : DigitChars[d + 1] = c

RECURSIVE DigitsValue(_)
DigitsValue(s) ==
    IF s = <<>> THEN 0
    ELSE 10 * DigitsValue(SubSeq(s, 1, Len(s) - 1)) + DigitValue(s[Len(s)])

\* str::parse::<i128>: an optional sign, then one or more decimal digits
Parse(s) ==
    LET signed == s # <<>> /\ Head(s) \in {"-", "+"}
        body   == IF signed THEN Tail(s) ELSE s
    IN  IF body = <<>> \/ \E i \in 1..Len(body) : ~IsDigit(body[i])
        THEN [ok |-> FALSE, val |-> 0]
        ELSE [ok |-> TRUE,
              val |-> IF signed /\ Head(s) = "-" THEN -DigitsValue(body)
                      ELSE DigitsValue(body)]

----------------------------------------------------------------------------
(* day9: enum Mode *)

Position(idx)  == [kind |-> "Position", v |-> idx]
Immediate(val) == [kind |-> "Immediate", v |-> val]
Relative(off)  == [kind |-> "Relative", v |-> off]
ModePanic(msg) == [kind |-> "Panic", v |-> 0, msg |-> msg]

\* Mode::from with the mode digits taken one place too high
Mode_from_Shifted(op_code, m, idx, off) ==
    LET mode == (op_code \div (10 ^ (off + 1))) % 10
    IN  IF idx + off >= Len(m) THEN ModePanic("index out of bounds")
        ELSE LET val == At(m, idx + off)
             IN  CASE mode = 0 -> Position(AsUsize(val))
                   [] mode = 1 -> Immediate(val)
                   [] mode = 2 -> Relative(AsIsize(val))
                   [] OTHER    -> ModePanic("Unexpected mode param")

\* Mode::from with every mode digit above 2 taken as Position
Mode_from_Lenient(op_code, m, idx, off) ==
    LET mode == (op_code \div (10 ^ off)) % 10
    IN  IF idx + off >= Len(m) THEN ModePanic("index out of bounds")
        ELSE LET val == At(m, idx + off)
             IN  CASE mode = 1 -> Immediate(val)
                   [] mode = 2 -> Relative(AsIsize(val))
                   [] OTHER    -> Position(AsUsize(val))

\* Mode::from with a parameter cell beyond the tape read as 0
Mode_from_Padded(op_code, m, idx, off) ==
    LET mode == (op_code \div (10 ^ off)) % 10
        val  == IF idx + off >= Len(m) THEN 0 ELSE At(m, idx + off)
    IN  CASE mode = 0 -> Position(AsUsize(val))
          [] mode = 1 -> Immediate(val)
          [] mode = 2 -> Relative(AsIsize(val))
          [] OTHER    -> ModePanic("Unexpected mode param")

\* Mode::from
Mode_from(op_code, m, idx, off) ==
    LET mode == (op_code \div (10 ^ off)) % 10
    IN  IF idx + off >= Len(m) THEN ModePanic("index out of bounds")
        ELSE LET val == At(m, idx + off)
             IN  CASE mode = 0 -> Position(AsUsize(val))
                   [] mode = 1 -> Immediate(val)
                   [] mode = 2 -> Relative(AsIsize(val))
                   [] OTHER    -> ModePanic("Unexpected mode param")

\* Mode::val with addresses beyond the tape wrapping around it
Mode_val_Wrapping(self, m, relative) ==
    CASE self.kind = "Position" ->
            IF m = <<>> THEN 0 ELSE At(m, self.v % Len(m))
      [] self.kind = "Immediate" -> self.v
      [] self.kind = "Relative" ->
            LET idx == AsUsize(AsIsize(relative) + self.v)
            IN  IF m = <<>> THEN 0 ELSE At(m, idx % Len(m))

\* Mode::val with a Relative parameter read as a Positional one
Mode_val_NoBase(self, m, relative) ==
    CASE self.kind = "Position" ->
            IF self.v >= Len(m) THEN 0 ELSE At(m, self.v)
      [] self.kind = "Immediate" -> self.v
      [] self.kind = "Relative" ->
            LET idx == AsUsize(self.v)
            IN  IF idx >= Len(m) THEN 0 ELSE At(m, idx)

\* Mode::val
Mode_val(self, m, relative) ==
    CASE self.kind = "Position" ->
            IF self.v >= Len(m) THEN 0 ELSE At(m, self.v)
      [] self.kind = "Immediate" -> self.v
      [] self.kind = "Relative" ->
            LET idx == AsUsize(AsIsize(relative) + self.v)
            IN  IF idx >= Len(m) THEN 0 ELSE At(m, idx)

\* Mode::adr with an Immediate parameter giving its value as the address
Mode_adr_Immediate(self, relative) ==
    CASE self.kind = "Position" -> self.v
      [] self.kind = "Relative" -> AsUsize(AsIsize(relative) + self.v)
      [] OTHER -> AsUsize(self.v)

\* Mode::adr; -1 stands for the panic on an Immediate parameter
Mode_adr(self, relative) ==
    CASE self.kind = "Position" -> self.v
      [] self.kind = "Relative" -> AsUsize(AsIsize(relative) + self.v)
      [] OTHER -> -1

----------------------------------------------------------------------------
(* day9: enum OpCode *)

Op3(tag, r1, r2, o) == [tag |-> tag, r1 |-> r1, r2 |-> r2, o |-> o]
Op2(tag, r1, jmp)   == [tag |-> tag, r1 |-> r1, jmp |-> jmp]
Op1(tag, p)         == [tag |-> tag, p |-> p]
OpExt               == [tag |-> "Ext"]
OpPanic(msg)        == [tag |-> "Panic", msg |-> msg]

\* the first decoding panic among the parameters, if any
Checked(op, params) ==
    IF \E i \in 1..Len(params) : params[i].kind = "Panic"
    THEN OpPanic((params[CHOOSE i \in 1..Len(params) : params[i].kind = "Panic"]).msg)
    ELSE op

\* OpCode::from
OpCode_from(m, idx) ==
    IF idx >= Len(m) THEN OpPanic("index out of bounds")
    ELSE
    LET instruction == At(m, idx)
        op_code     == Rem(instruction, 100)
        mode_spec   == AsUsize(instruction) \div 100
        pidx        == idx + 1
        p0          == Mode_from(mode_spec, m, pidx, 0)
        p1          == Mode_from(mode_spec, m, pidx, 1)
        p2          == Mode_from(mode_spec, m, pidx, 2)
    IN  CASE op_code = 1  -> Checked(Op3("Add", p0, p1, p2), <<p0, p1, p2>>)
          [] op_code = 2  -> Checked(Op3("Mul", p0, p1, p2), <<p0, p1, p2>>)
          [] op_code = 3  -> Checked(Op1("Ipt", p0), <<p0>>)
          [] op_code = 4  -> Checked(Op1("Opt", p0), <<p0>>)
          [] op_code = 5  -> Checked(Op2("Jtr", p0, p1), <<p0, p1>>)
          [] op_code = 6  -> Checked(Op2("Jfl", p0, p1), <<p0, p1>>)
          [] op_code = 7  -> Checked(Op3("Les", p0, p1, p2), <<p0, p1, p2>>)
          [] op_code = 8  -> Checked(Op3("Eql", p0, p1, p2), <<p0, p1, p2>>)
          [] op_code = 9  -> Checked(Op1("Crl", p0), <<p0>>)
          [] op_code = 99 -> OpExt
          [] OTHER        -> OpPanic("Unexpected opcode")

\* OpCode::len with the width of the three-parameter instructions for every
\* instruction but Ext
OpCode_len_Uniform(self) ==
    CASE self.tag = "Ext" -> 1
      [] OTHER -> 4

\* OpCode::len
OpCode_len(self) ==
    CASE self.tag \in {"Add", "Mul", "Les", "Eql"} -> 4
      [] self.tag \in {"Jtr", "Jfl"} -> 3
      [] self.tag \in {"Ipt", "Opt", "Crl"} -> 2
      [] self.tag = "Ext" -> 1

----------------------------------------------------------------------------
(* day9: MockIo *)

\* MockIo::read giving "0" when the queue is empty
MockIo_read_Default(inp) ==
    IF inp = <<>> THEN [panic |-> FALSE, val |-> <<"0">>, input |-> inp]
    ELSE [panic |-> FALSE, val |-> Head(inp), input |-> Tail(inp)]

\* MockIo::read: pop_front().expect("Ran out of input")
MockIo_read(inp) ==
    IF inp = <<>> THEN [panic |-> TRUE, val |-> <<>>, input |-> inp]
    ELSE [panic |-> FALSE, val |-> Head(inp), input |-> Tail(inp)]

\* MockIo::write putting the text in front of the log
MockIo_write_Prepend(out, text) == <<text>> \o out

\* MockIo::write: push
MockIo_write(out, text) == Append(out, text)

----------------------------------------------------------------------------
(* day9: OpCode::exec *)

Offset(n)  == [kind |-> "Offset", n |-> n]
Jump(adr)  == [kind |-> "Jump", n |-> adr]
\* Incr::Exit taken as Incr::Offset(1), the width of Halt
Exit_Continues == [kind |-> "Offset", n |-> 1]
Exit       == [kind |-> "Exit", n |-> 0]

\* what exec leaves behind: it returned incr, or it panicked
Returned(m, inp, out, relative, incr) ==
    [panic |-> FALSE, mem |-> m, input |-> inp, output |-> out,
     rel |-> relative, incr |-> incr]
Panicked(m, inp, out, relative) ==
    [panic |-> TRUE, mem |-> m, input |-> inp, output |-> out,
     rel |-> relative, incr |-> Exit]

\* the instructions of the first match of exec, which have a write target
HasTarget(self) == self.tag \in {"Add", "Mul", "Les", "Eql", "Ipt"}

Target(self) == IF self.tag = "Ipt" THEN self.p ELSE self.o

\* Vec::resize(new_len, 0)
Vec_resize(m, new_len) ==
    IF new_len > Len(m)
    THEN IF new_len > MaxVecLen
         THEN [panic |-> TRUE, mem |-> m]                 \* capacity overflow
         ELSE [panic |-> FALSE, mem |-> m \o Zeros(new_len - Len(m))]
    ELSE [panic |-> FALSE, mem |-> SubSeq(m, 1, new_len)]

\* `adr + 1`: an overflow panics in a build with overflow checks (debug) and
\* wraps in a build without them (release)
AdrPlusOne(adr, overflow_checks) ==
    IF adr + 1 >= UsizeModulus
    THEN [panic |-> overflow_checks, val |-> (adr + 1) % UsizeModulus]
    ELSE [panic |-> FALSE, val |-> adr + 1]

\* the first match of exec: "potentially increase memory size before ops"
Grow(self, m, relative, overflow_checks) ==
    IF ~HasTarget(self) THEN [panic |-> FALSE, mem |-> m]
    ELSE LET adr == Mode_adr(Target(self), relative)
         IN  IF adr = -1 THEN [panic |-> TRUE, mem |-> m]
             ELSE IF adr >= Len(m)
                  THEN LET n == AdrPlusOne(adr, overflow_checks)
                       IN  IF n.panic THEN [panic |-> TRUE, mem |-> m]
                           ELSE Vec_resize(m, n.val)
                  ELSE [panic |-> FALSE, mem |-> m]

\* Computed with the first operand stored at the output address before the
\* second operand is read
Computed_AfterWrite(self, m, relative) ==
    LET r1  == Mode_val(self.r1, m, relative)
        adr == Mode_adr(self.o, relative)
        m2  == IF adr >= 0 /\ adr < Len(m) THEN [m EXCEPT ![adr + 1] = r1] ELSE m
        r2  == Mode_val(self.r2, m2, relative)
    IN  CASE self.tag = "Add" -> r1 + r2
          [] self.tag = "Mul" -> r1 * r2
          [] self.tag = "Les" -> IF r1 < r2 THEN 1 ELSE 0
          [] self.tag = "Eql" -> IF r1 = r2 THEN 1 ELSE 0

\* the value Add, Mul, Les and Eql assign
Computed(self, m, relative) ==
    LET r1 == Mode_val(self.r1, m, relative)
        r2 == Mode_val(self.r2, m, relative)
    IN  CASE self.tag = "Add" -> r1 + r2
          [] self.tag = "Mul" -> r1 * r2
          [] self.tag = "Les" -> IF r1 < r2 THEN 1 ELSE 0
          [] self.tag = "Eql" -> IF r1 = r2 THEN 1 ELSE 0

\* mem[adr] = value; the index panics beyond the tape
Store(m, adr, value, inp, out, relative, incr) ==
    IF adr >= Len(m) THEN Panicked(m, inp, out, relative)
    ELSE Returned([m EXCEPT ![adr + 1] = value], inp, out, relative, incr)

\* the arm of Ipt: io.read().trim().parse().expect(..), then the store
Exec_Ipt(self, m, inp, out, relative) ==
    LET adr  == Mode_adr(self.p, relative)
        line == MockIo_read(inp)
        num  == Parse(Trim(line.val))
    IN  IF line.panic THEN Panicked(m, inp, out, relative)
        ELSE IF ~num.ok THEN Panicked(m, line.input, out, relative)
        ELSE Store(m, adr, num.val, line.input, out, relative, Offset(OpCode_len(self)))

\* Exec_Jump with only positive values counting as true
Exec_Jump_Positive(self, m, inp, out, relative) ==
    LET r1    == Mode_val(self.r1, m, relative)
        taken == IF self.tag = "Jtr" THEN r1 > 0 ELSE r1 = 0
    IN  IF taken
        THEN Returned(m, inp, out, relative, Jump(AsUsize(Mode_val(self.jmp, m, relative))))
        ELSE Returned(m, inp, out, relative, Offset(OpCode_len(self)))

\* Exec_Jump with a taken jump resetting the relative base
Exec_Jump_ResetsBase(self, m, inp, out, relative) ==
    LET r1    == Mode_val(self.r1, m, relative)
        taken == IF self.tag = "Jtr" THEN r1 # 0 ELSE r1 = 0
    IN  IF taken
        THEN Returned(m, inp, out, 0, Jump(AsUsize(Mode_val(self.jmp, m, relative))))
        ELSE Returned(m, inp, out, relative, Offset(OpCode_len(self)))

\* the arms of Jtr and Jfl
Exec_Jump(self, m, inp, out, relative) ==
    LET r1    == Mode_val(self.r1, m, relative)
        taken == IF self.tag = "Jtr" THEN r1 # 0 ELSE r1 = 0
    IN  IF taken
        THEN Returned(m, inp, out, relative, Jump(AsUsize(Mode_val(self.jmp, m, relative))))
        ELSE Returned(m, inp, out, relative, Offset(OpCode_len(self)))

\* Exec_Crl without the check of the sign of the sum
Exec_Crl_Signed(self, m, inp, out, relative) ==
    LET res == AsIsize(relative) + AsIsize(Mode_val(self.p, m, relative))
    IN  Returned(m, inp, out, AsUsize(res), Offset(OpCode_len(self)))

\* the arm of Crl
Exec_Crl(self, m, inp, out, relative) ==
    LET res == AsIsize(relative) + AsIsize(Mode_val(self.p, m, relative))
    IN  IF res < 0 THEN Panicked(m, inp, out, relative)
        ELSE Returned(m, inp, out, AsUsize(res), Offset(OpCode_len(self)))

\* OpCode::exec
OpCode_exec(self, m, inp, out, relative, overflow_checks) ==
    LET grown == Grow(self, m, relative, overflow_checks)
        m1    == grown.mem
    IN  IF grown.panic THEN Panicked(m1, inp, out, relative)
        ELSE CASE self.tag = "Ext" -> Returned(m1, inp, out, relative, Exit)
               [] self.tag \in {"Add", "Mul", "Les", "Eql"} ->
                    Store(m1, Mode_adr(self.o, relative), Computed(self, m1, relative),
                          inp, out, relative, Offset(OpCode_len(self)))
               [] self.tag = "Ipt" -> Exec_Ipt(self, m1, inp, out, relative)
               [] self.tag = "Opt" ->
                    Returned(m1, inp,
                             MockIo_write(out, Format(Mode_val(self.p, m1, relative))),
                             relative, Offset(OpCode_len(self)))
               [] self.tag \in {"Jtr", "Jfl"} -> Exec_Jump(self, m1, inp, out, relative)
               [] self.tag = "Crl" -> Exec_Crl(self, m1, inp, out, relative)

----------------------------------------------------------------------------
(* day9: struct Program *)

NoPrev == [none |-> TRUE]

\* the state an iteration started from, and the instruction it decoded
Snapshot(op_code) ==
    [none |-> FALSE, mem |-> mem, ctr |-> ctr, rel |-> rel,
     input |-> input, output |-> output, op |-> op_code]

\* Fetch from the program as it was parsed
Fetch_Cached == OpCode_from(program, ctr)

\* `let op_code = OpCode::from(self.mem, self.ctr);`
Fetch == OpCode_from(mem, ctr)

\* one iteration of the loop of Program::run
Program_run ==
    /\ engine = "day9"
    /\ status = "running"
    /\ Len(output) <= MaxOut
    /\ rel <= MaxRel
    /\ prev' = Snapshot(Fetch)
    /\ UNCHANGED <<engine, program, script>>
    /\ UNCHANGED <<harnessVars, painterVars, restVars>>
    /\ LET op_code == Fetch
       IN  IF op_code.tag = "Panic"
           THEN /\ status' = "fatal"
                /\ UNCHANGED <<mem, ctr, rel, input, output>>
           ELSE \E overflow_checks \in BOOLEAN :
                LET res == OpCode_exec(op_code, mem, input, output, rel, overflow_checks)
                IN  /\ mem' = res.mem
                    /\ input' = res.input
                    /\ output' = res.output
                    /\ IF res.panic
                       THEN status' = "fatal" /\ UNCHANGED <<ctr, rel>>
                       ELSE IF res.incr.kind = "Exit"
                       THEN status' = "halted" /\ UNCHANGED <<ctr, rel>>
                       ELSE /\ status' = "running"
                            /\ ctr' = IF res.incr.kind = "Offset"
                                      THEN ctr + res.incr.n ELSE res.incr.n
                            /\ rel' = res.rel

----------------------------------------------------------------------------
(* day5: Mode, OpCode, Program (i32 tape of fixed length, no relative mode) *)

\* Mode::from of day5: every mode digit other than 0 gives Immediate
D5_Mode_from(op_code, m, idx, off) ==
    LET mode == (op_code \div (10 ^ off)) % 10
    IN  IF idx + off >= Len(m) THEN ModePanic("index out of bounds")
        ELSE LET val == At(m, idx + off)
             IN  IF mode = 0 THEN Position(AsUsize(val)) ELSE Immediate(val)

\* Mode::val of day5
D5_Mode_val(self, m) ==
    CASE self.kind = "Position" ->
            IF self.v >= Len(m) THEN 0 ELSE At(m, self.v)
      [] self.kind = "Immediate" -> self.v

\* `mem[i] as usize` of a write target, which has no mode
D5_Raw(m, i) ==
    IF i >= Len(m) THEN ModePanic("index out of bounds")
    ELSE [kind |-> "Raw", v |-> AsUsize(At(m, i))]

\* OpCode::from of day5 with the write target of Add, Mul, Les and Eql
\* following its mode digit: with a digit other than 0 the target is the
\* parameter's own cell
D5_OpCode_from_Moded(m, idx) ==
    IF idx >= Len(m) THEN OpPanic("index out of bounds")
    ELSE
    LET instruction == At(m, idx)
        op_code     == Rem(instruction, 100)
        mode_spec   == AsUsize(instruction) \div 100
        pidx        == idx + 1
        p0          == D5_Mode_from(mode_spec, m, pidx, 0)
        p1          == D5_Mode_from(mode_spec, m, pidx, 1)
        o           == IF pidx + 2 < Len(m) /\ (mode_spec \div 100) % 10 # 0
                       THEN [kind |-> "Raw", v |-> pidx + 2]
                       ELSE D5_Raw(m, pidx + 2)
        adr         == D5_Raw(m, pidx)
    IN  CASE op_code = 1  -> Checked(Op3("Add", p0, p1, o), <<p0, p1, o>>)
          [] op_code = 2  -> Checked(Op3("Mul", p0, p1, o), <<p0, p1, o>>)
          [] op_code = 3  -> Checked(Op1("Ipt", adr), <<adr>>)
          [] op_code = 4  -> Checked(Op1("Opt", p0), <<p0>>)
          [] op_code = 5  -> Checked(Op2("Jtr", p0, p1), <<p0, p1>>)
          [] op_code = 6  -> Checked(Op2("Jfl", p0, p1), <<p0, p1>>)
          [] op_code = 7  -> Checked(Op3("Les", p0, p1, o), <<p0, p1, o>>)
          [] op_code = 8  -> Checked(Op3("Eql", p0, p1, o), <<p0, p1, o>>)
          [] op_code = 99 -> OpExt
          [] OTHER        -> OpPanic("Unexpected opcode")

\* OpCode::from of day5
D5_OpCode_from(m, idx) ==
    IF idx >= Len(m) THEN OpPanic("index out of bounds")
    ELSE
    LET instruction == At(m, idx)
        op_code     == Rem(instruction, 100)
        mode_spec   == AsUsize(instruction) \div 100
        pidx        == idx + 1
        p0          == D5_Mode_from(mode_spec, m, pidx, 0)
        p1          == D5_Mode_from(mode_spec, m, pidx, 1)
        o           == D5_Raw(m, pidx + 2)
        adr         == D5_Raw(m, pidx)
    IN  CASE op_code = 1  -> Checked(Op3("Add", p0, p1, o), <<p0, p1, o>>)
          [] op_code = 2  -> Checked(Op3("Mul", p0, p1, o), <<p0, p1, o>>)
          [] op_code = 3  -> Checked(Op1("Ipt", adr), <<adr>>)
          [] op_code = 4  -> Checked(Op1("Opt", p0), <<p0>>)
          [] op_code = 5  -> Checked(Op2("Jtr", p0, p1), <<p0, p1>>)
          [] op_code = 6  -> Checked(Op2("Jfl", p0, p1), <<p0, p1>>)
          [] op_code = 7  -> Checked(Op3("Les", p0, p1, o), <<p0, p1, o>>)
          [] op_code = 8  -> Checked(Op3("Eql", p0, p1, o), <<p0, p1, o>>)
          [] op_code = 99 -> OpExt
          [] OTHER        -> OpPanic("Unexpected opcode")

\* OpCode::len of day5
D5_OpCode_len(self) ==
    CASE self.tag \in {"Add", "Mul", "Les", "Eql"} -> 4
      [] self.tag \in {"Jtr", "Jfl"} -> 3
      [] self.tag \in {"Ipt", "Opt"} -> 2
      [] self.tag = "Ext" -> 1

\* the value Add, Mul, Les and Eql of day5 assign
D5_Computed(self, m) ==
    LET r1 == D5_Mode_val(self.r1, m)
        r2 == D5_Mode_val(self.r2, m)
    IN  CASE self.tag = "Add" -> r1 + r2
          [] self.tag = "Mul" -> r1 * r2
          [] self.tag = "Les" -> IF r1 < r2 THEN 1 ELSE 0
          [] self.tag = "Eql" -> IF r1 = r2 THEN 1 ELSE 0

\* the arm of Ipt of day5
D5_Exec_Ipt(self, m, inp, out) ==
    LET line == MockIo_read(inp)
        num  == Parse(Trim(line.val))
    IN  IF line.panic THEN Panicked(m, inp, out, 0)
        ELSE IF ~num.ok THEN Panicked(m, line.input, out, 0)
        ELSE Store(m, self.p.v, num.val, line.input, out, 0, Offset(D5_OpCode_len(self)))

\* the arms of Jtr and Jfl of day5
D5_Exec_Jump(self, m, inp, out) ==
    LET r1    == D5_Mode_val(self.r1, m)
        taken == IF self.tag = "Jtr" THEN r1 # 0 ELSE r1 = 0
    IN  IF taken
        THEN Returned(m, inp, out, 0, Jump(AsUsize(D5_Mode_val(self.jmp, m))))
        ELSE Returned(m, inp, out, 0, Offset(D5_OpCode_len(self)))

\* OpCode::exec of day5 with Ext writing its opcode to the output
D5_OpCode_exec_HaltWrites(self, m, inp, out) ==
    CASE self.tag = "Ext" -> Returned(m, inp, MockIo_write(out, Format(99)), 0, Exit)
      [] self.tag \in {"Add", "Mul", "Les", "Eql"} ->
            Store(m, self.o.v, D5_Computed(self, m), inp, out, 0,
                  Offset(D5_OpCode_len(self)))
      [] self.tag = "Ipt" -> D5_Exec_Ipt(self, m, inp, out)
      [] self.tag = "Opt" ->
            Returned(m, inp, MockIo_write(out, Format(D5_Mode_val(self.p, m))), 0,
                     Offset(D5_OpCode_len(self)))
      [] self.tag \in {"Jtr", "Jfl"} -> D5_Exec_Jump(self, m, inp, out)

\* OpCode::exec of day5
D5_OpCode_exec(self, m, inp, out) ==
    CASE self.tag = "Ext" -> Returned(m, inp, out, 0, Exit)
      [] self.tag \in {"Add", "Mul", "Les", "Eql"} ->
            Store(m, self.o.v, D5_Computed(self, m), inp, out, 0,
                  Offset(D5_OpCode_len(self)))
      [] self.tag = "Ipt" -> D5_Exec_Ipt(self, m, inp, out)
      [] self.tag = "Opt" ->
            Returned(m, inp, MockIo_write(out, Format(D5_Mode_val(self.p, m))), 0,
                     Offset(D5_OpCode_len(self)))
      [] self.tag \in {"Jtr", "Jfl"} -> D5_Exec_Jump(self, m, inp, out)

\* `let op_code = OpCode::from(self.mem, self.ctr);` of day5
D5_Fetch == D5_OpCode_from(mem, ctr)

\* one iteration of the loop of Program::run of day5
D5_Program_run ==
    /\ engine = "day5"
    /\ status = "running"
    /\ Len(output) <= MaxOut
    /\ prev' = Snapshot(D5_Fetch)
    /\ UNCHANGED <<engine, program, script, rel>>
    /\ UNCHANGED <<harnessVars, painterVars, restVars>>
    /\ LET op_code == D5_Fetch
       IN  IF op_code.tag = "Panic"
           THEN /\ status' = "fatal"
                /\ UNCHANGED <<mem, ctr, input, output>>
           ELSE LET res == D5_OpCode_exec(op_code, mem, input, output)
                IN  /\ mem' = res.mem
                    /\ input' = res.input
                    /\ output' = res.output
                    /\ IF res.panic
                       THEN status' = "fatal" /\ UNCHANGED ctr
                       ELSE IF res.incr.kind = "Exit"
                       THEN status' = "halted" /\ UNCHANGED ctr
                       ELSE /\ status' = "running"
                            /\ ctr' = IF res.incr.kind = "Offset"
                                      THEN ctr + res.incr.n ELSE res.incr.n

----------------------------------------------------------------------------
(* day2: OpCode, Program (usize tape of fixed length; Add, Mul, Exit) *)

\* mem[i] of day2, which panics beyond the tape
D2_Index(m, i) ==
    IF i >= Len(m) THEN ModePanic("index out of bounds")
    ELSE [kind |-> "Raw", v |-> At(m, i)]

\* OpCode::from of day2 with every word that is not Add or Mul taken as Exit
D2_OpCode_from_Lenient(m, idx) ==
    IF idx >= Len(m) THEN OpPanic("index out of bounds")
    ELSE
    LET op_code == At(m, idx)
        r1      == D2_Index(m, idx + 1)
        r2      == D2_Index(m, idx + 2)
        o       == D2_Index(m, idx + 3)
    IN  CASE op_code = 1  -> Checked(Op3("Add", r1, r2, o), <<r1, r2, o>>)
          [] op_code = 2  -> Checked(Op3("Mul", r1, r2, o), <<r1, r2, o>>)
          [] OTHER        -> [tag |-> "Exit"]

\* OpCode::from of day2
D2_OpCode_from(m, idx) ==
    IF idx >= Len(m) THEN OpPanic("index out of bounds")
    ELSE
    LET op_code == At(m, idx)
        r1      == D2_Index(m, idx + 1)
        r2      == D2_Index(m, idx + 2)
        o       == D2_Index(m, idx + 3)
    IN  CASE op_code = 1  -> Checked(Op3("Add", r1, r2, o), <<r1, r2, o>>)
          [] op_code = 2  -> Checked(Op3("Mul", r1, r2, o), <<r1, r2, o>>)
          [] op_code = 99 -> [tag |-> "Exit"]
          [] OTHER        -> OpPanic("Unexpected opcode")

\* OpCode::exec of day2: the tape, whether it panicked, and the bool it returns
D2_OpCode_exec(self, m) ==
    IF self.tag = "Exit" THEN [panic |-> FALSE, mem |-> m, continue |-> FALSE]
    ELSE IF self.r1.v >= Len(m) \/ self.r2.v >= Len(m) \/ self.o.v >= Len(m)
         THEN [panic |-> TRUE, mem |-> m, continue |-> FALSE]
         ELSE LET a == At(m, self.r1.v)
                  b == At(m, self.r2.v)
              IN  [panic |-> FALSE,
                   mem |-> [m EXCEPT ![self.o.v + 1] =
                                IF self.tag = "Add" THEN a + b ELSE a * b],
                   continue |-> TRUE]

\* `let op_code = OpCode::from(self.mem, self.ctr);` of day2
D2_Fetch == D2_OpCode_from(mem, ctr)

\* one iteration of the loop of Program::run of day2
D2_Program_run ==
    /\ engine = "day2"
    /\ status = "running"
    /\ prev' = Snapshot(D2_Fetch)
    /\ UNCHANGED <<engine, program, script, rel, input, output>>
    /\ UNCHANGED <<harnessVars, painterVars, restVars>>
    /\ LET op_code == D2_Fetch
       IN  IF op_code.tag = "Panic"
           THEN /\ status' = "fatal"
                /\ UNCHANGED <<mem, ctr>>
           ELSE LET res == D2_OpCode_exec(op_code, mem)
                IN  /\ mem' = res.mem
                    /\ IF res.panic
                       THEN status' = "fatal" /\ UNCHANGED ctr
                       ELSE IF ~res.continue
                       THEN status' = "halted" /\ UNCHANGED ctr
                       ELSE status' = "running" /\ ctr' = ctr + 4

----------------------------------------------------------------------------
(* The programs and input scripts a run is started from *)

\* values of a write-target or jump-target parameter, and of an operand
Params   == (-NegParam)..MaxParam
Operands == {-1, 0, 2, MaxParam}
Modes    == 0..2

Word(op, a, b, c) == op + 100 * a + 1000 * b + 10000 * c

Instr3 == { <<Word(op, a, b, c), p1, p2, p3>> :
              op \in {1, 2, 7, 8}, a \in Modes, b \in Modes, c \in Modes,
              p1 \in Operands, p2 \in Operands, p3 \in Params }
Instr2 == { <<Word(op, a, b, 0), p1, p2>> :
              op \in {5, 6}, a \in Modes, b \in Modes, p1 \in Operands, p2 \in Params }
Instr1(ops, ps) == { <<Word(op, a, 0, 0), p1>> : op \in ops, a \in Modes, p1 \in ps }

\* an instruction one of whose parameters is in relative mode
UsesRelative(i) == \E k \in 0..2 : (i[1] \div (10 ^ (2 + k))) % 10 = 2

\* one instruction, then Halt
Single == { i \o <<99>> : i \in Instr3 \cup Instr2 \cup Instr1({4, 9}, Params) }

\* two short instructions, then Halt
Pairs == { i \o j \o <<99>> : i \in Instr1({4, 9}, Operands), j \in Instr1({4, 9}, Params) }

\* the relative base is set, one instruction uses it, then Halt
Based == { <<109, b>> \o i \o <<99>> :
             b \in 1..MaxBase,
             i \in { j \in Instr3 \cup Instr2 : UsesRelative(j) } }

\* programs that read input: Input alone, before and after a short instruction
Reading ==
    { i \o <<99>> : i \in Instr1({3}, Params) }
    \cup { i \o j \o <<99>> : i \in Instr1({3}, Operands), j \in Instr1({3, 4, 9}, Params) }
    \cup { i \o j \o <<99>> : i \in Instr1({4, 9}, Operands), j \in Instr1({3}, Params) }

\* the programs of the tests of day9 (test_run, position_op_*, test_op_extra_case_1)
Quine == <<109, 1, 204, -1, 1001, 100, 1, 100, 1008, 100, 16, 101, 1006, 101, 0, 99>>
Tests == { <<1, 0, 0, 0, 99>>, <<2, 3, 0, 3, 99>>, <<2, 4, 4, 5, 99, 0>>,
           <<1, 1, 1, 4, 99, 5, 6, 0, 99>>,
           Quine }
TestsReading ==
         { <<3, 9, 8, 9, 10, 9, 4, 9, 99, -1, 8>>,
           <<3, 9, 7, 9, 10, 9, 4, 9, 99, -1, 8>>,
           <<3, 12, 5, 12, 15, 2, 13, 14, 14, 4, 14, 99, -1, 0, 1, 9>>,
           <<3, 12, 6, 12, 15, 1, 13, 14, 13, 4, 13, 99, -1, 0, 1, 9>> }

\* a program that never halts
Looping == <<1105, 1, 0>>

\* tapes on which a run meets a word that is no instruction: at once, behind
\* instructions that have changed the relative base and the output, or written
\* by the program itself
Unknown == { <<0>>, <<-1>>, <<-99>>, <<98, 0>>, <<10, 0, 0, 0, 99>>,
             <<1100, 0, 0, 0, 99>>, <<109, 1, 104, 5, 13>>,
             <<1101, 5, 5, 4, 99>>, <<104, 7, 50, 99>> }

\* one instruction with one digit of its mode specification above 2 (also in
\* a place for which the instruction has no parameter), then Halt; alone and
\* behind instructions that have changed the relative base and the output
BadDigits == 3..9
BadWords ==
    { <<Word(op, d, 0, 0), 1>> : op \in {3, 4, 9}, d \in BadDigits }
    \cup { <<Word(op, 0, d, 0), 1>> : op \in {3, 4, 9}, d \in BadDigits }
    \cup { <<Word(op, d, 0, 0), 1, 2>> : op \in {5, 6}, d \in BadDigits }
    \cup { <<Word(op, 1, d, 0), 0, 2>> : op \in {5, 6}, d \in BadDigits }
    \cup { <<Word(op, d, 0, 0), 1, 1, 1>> : op \in {1, 2, 7, 8}, d \in BadDigits }
    \cup { <<Word(op, 0, d, 0), 1, 1, 1>> : op \in {1, 2, 7, 8}, d \in BadDigits }
    \cup { <<Word(op, 0, 0, d), 1, 1, 1>> : op \in {1, 2, 7, 8}, d \in BadDigits }
BadMode ==
    { i \o <<99>> : i \in BadWords }
    \cup { <<109, 1, 104, 5>> \o i \o <<99>> : i \in BadWords }

\* Halt alone, with digits above the opcode, and behind an Output
Halting == { <<99>>, <<199, 0>>, <<1099, 5>>, <<104, 3, 10099>> }

\* tapes that end inside an instruction, at once or behind an Output, and
\* tapes on which a jump leads to a cell that is beyond the tape the
\* program has grown, or to an instruction that ends beyond it
Truncated ==
    { <<4>>, <<3>>, <<109>>, <<1101, 1, 1>>, <<1005, 0>>, <<104, 1, 204>>,
      <<104, 1, 1102, 2, 3>>, <<1105, 1, 3>>, <<1106, 0, 9>>,
      <<1101, 1, 1, 9, 1105, 1, 12>>, <<1101, 1, 1, 9, 1105, 1, 9>> }

Programs ==
    Single \cup Pairs \cup Based \cup Tests \cup {Looping} \cup Unknown \cup BadMode
    \cup Halting \cup Truncated

Scripts == { <<>>,
             << <<"8", "\n">> >>,
             << <<"7", "\n">> >>,
             << <<"0", "\n">> >>,
             << <<"-", "1", "\n">> >>,
             << <<" ", "+", "1", "2", " ">> >>,
             << <<"x">> >>,
             << <<"\n">> >>,
             << <<"1", "\n">>, <<"5">> >> }

\* the programs day5 is started from: the same instructions (its decoder
\* knows neither opcode 9 nor mode 2) without the relative-base prefix
D5_Programs ==
    Single \cup Pairs \cup (Tests \ {Quine}) \cup {Looping} \cup Unknown \cup Halting
    \cup { <<104, 5>> \o i \o <<99>> : i \in BadWords }

\* the programs day2 is started from: tapes of usize
D2_Programs ==
    { <<op, p1, p2, p3, 99>> :
        op \in {1, 2, 3}, p1 \in 0..MaxParam, p2 \in 0..MaxParam, p3 \in 0..MaxParam }
    \cup { <<1, 0, 0, 0, 99>>, <<2, 3, 0, 3, 99>>, <<2, 4, 4, 5, 99, 0>>,
           <<1, 1, 1, 4, 99, 5, 6, 0, 99>> }
    \cup { <<99>>, <<199, 0>>, <<0>>, <<98, 0>>, <<101, 0, 0, 0, 99>>, <<1, 5, 5, 4, 99, 5>>,
           <<1, 0, 0, 0, 7, 0, 0, 0>> }

\* Program::new and MockIo::with_input
Program_new(e, p, s) ==
    /\ engine = e
    /\ program = p
    /\ script = s
    /\ mem = p
    /\ ctr = 0
    /\ rel = 0
    /\ input = s
    /\ output = <<>>
    /\ status = "running"
    /\ prev = NoPrev

\* the parts of the state that belong to no run of an engine, to no painter
\* and to no runner
NoFirst == [none |-> TRUE]
NoMap   == [p \in {} |-> "Black"]
NoPainted == [state |-> "none"]

OneRun(h) ==
    /\ harness = h
    /\ run = 1
    /\ first = NoFirst
    /\ noun = 0
    /\ verb = 0

NoPainter ==
    /\ init = "Black"
    /\ toBrain = <<>>
    /\ toTracker = <<>>
    /\ tpc = "none"
    /\ direction = "Up"
    /\ visited = NoMap
    /\ pos = <<0, 0>>
    /\ color = "Black"
    /\ pairs = <<>>
    /\ sent = <<>>
    /\ reads = <<>>
    /\ painted = NoPainted

NoRunner ==
    /\ path = <<>>
    /\ cursor = <<0, 0>>
    /\ routes = <<>>

NoCall == [none |-> TRUE]
NoTree ==
    /\ tree = [val |-> "", children |-> <<>>]
    /\ call = NoCall

NoPassword ==
    /\ password = 0
    /\ valid = [none |-> TRUE]

NoFuel ==
    /\ mass = 0
    /\ sum = 0
    /\ last_sum = 0
    /\ fpc = "none"

\* no runner, no tree, no password and no fuel
NoRest ==
    /\ NoRunner
    /\ NoTree
    /\ NoPassword
    /\ NoFuel

Init ==
    /\ \/ \E p \in Programs : Program_new("day9", p, <<>>)
       \/ \E p \in Reading \cup TestsReading, s \in Scripts : Program_new("day9", p, s)
       \/ \E p \in D5_Programs : Program_new("day5", p, <<>>)
       \/ \E p \in Reading \cup TestsReading, s \in Scripts : Program_new("day5", p, s)
       \/ \E p \in D2_Programs : Program_new("day2", p, <<>>)
    /\ OneRun("test")
    /\ NoPainter
    /\ NoRest

Next ==
    \/ Program_run
    \/ D5_Program_run
    \/ D2_Program_run

Spec == Init /\ [][Next]_vars

----------------------------------------------------------------------------
(* Repeated runs: the same program run twice, the mains of day2 and day11 *)

\* what a run leaves behind for the comparison with a later one
Outcome ==
    [none |-> FALSE, mem |-> mem, output |-> output,
     init |-> init, painted |-> painted, sent |-> sent]

\* the programs that are run twice, each with the scripts it is run on
TwiceTests == Tests \cup Halting \cup { i \o <<99>> : i \in Instr1({4, 9}, Params) }
TwiceInit ==
    /\ \/ \E p \in TwiceTests : Program_new("day9", p, <<>>)
       \/ \E p \in TestsReading, s \in Scripts : Program_new("day9", p, s)
       \/ \E p \in TwiceTests \ {Quine} : Program_new("day5", p, <<>>)
       \/ \E p \in TestsReading, s \in Scripts : Program_new("day5", p, s)
       \/ \E p \in Tests \ {Quine} : Program_new("day2", p, <<>>)
    /\ OneRun("twice")
    /\ NoPainter
    /\ NoRest

\* the second run of a program that has halted: a new Program on a fresh copy
\* of the same tape, a new MockIo with the same input
Run_again ==
    /\ harness = "twice"
    /\ run = 1
    /\ status = "halted"
    /\ first' = Outcome
    /\ run' = 2
    /\ mem' = program
    /\ ctr' = 0
    /\ rel' = 0
    /\ input' = script
    /\ output' = <<>>
    /\ status' = "running"
    /\ prev' = NoPrev
    /\ UNCHANGED <<engine, program, script, harness, noun, verb>>
    /\ UNCHANGED <<painterVars, restVars>>

\* main of day2: the first run with noun 12 and verb 2, then the sweep over
\* noun and verb, each run on a clone of the parsed tape
WANTED_RESULT == 19690720
FirstNoun     == 12
FirstVerb     == 2

\* the sweep is over 0..100 in the source
SweepSize == 2

\* the tape a run of the sweep is started from, in place of the clone
Sweep_tape_Reused == mem

\* `let mut mem = mem.clone();`
Sweep_tape == program

\* Program::new, noun and verb on a tape: mem[1] = noun and mem[2] = verb,
\* each of which panics on a tape that short
D2_Prepare(m, n, v) ==
    IF Len(m) < 2 THEN [panic |-> TRUE, mem |-> m]
    ELSE IF Len(m) < 3 THEN [panic |-> TRUE, mem |-> [m EXCEPT ![2] = n]]
    ELSE [panic |-> FALSE, mem |-> [m EXCEPT ![2] = n, ![3] = v]]

\* the parsed tapes main of day2 is run on: one whose sweep finds the wanted
\* result at noun 0 and verb 1, ones whose sweep finds nothing, one whose
\* first run reads beyond the tape, ones too short for noun and verb
D2_Inputs ==
    { <<1, 0, 0, 3, 1, 3, 9, 0, 99, 19690719, 0, 0, 5>>,
      <<1, 0, 0, 0, 99, 0, 0, 0, 0, 0, 0, 0, 0>>,
      <<2, 0, 0, 0, 1, 0, 0, 4, 99, 0, 0, 0, 3>>,
      <<1, 0, 0, 0, 99>>, <<99, 0, 0>>, <<99, 0>>, <<99>> }

D2_mainInit ==
    /\ \E p \in D2_Inputs :
          /\ engine = "day2"
          /\ program = p
          /\ mem = p
    /\ script = <<>>
    /\ ctr = 0
    /\ rel = 0
    /\ input = <<>>
    /\ output = <<>>
    /\ status = "parsed"
    /\ prev = NoPrev
    /\ harness = "day2"
    /\ run = 0
    /\ first = NoFirst
    /\ noun = 0
    /\ verb = 0
    /\ NoPainter
    /\ NoRest

\* the start of a run of main of day2 with noun n and verb v
D2_main_start(tape, n, v) ==
    LET res == D2_Prepare(tape, n, v)
    IN  /\ mem' = res.mem
        /\ status' = IF res.panic THEN "fatal" ELSE "running"
        /\ ctr' = 0
        /\ noun' = n
        /\ verb' = v
        /\ run' = run + 1
        /\ prev' = NoPrev
        /\ first' = IF run = 0 THEN NoFirst ELSE Outcome
        /\ UNCHANGED <<engine, program, script, rel, input, output, harness>>
        /\ UNCHANGED <<painterVars, restVars>>

\* the block of the first run, up to program.run()
D2_main_first ==
    /\ harness = "day2"
    /\ status = "parsed"
    /\ D2_main_start(program, FirstNoun, FirstVerb)

\* the sweep after a run has returned: the first pair after the first run;
\* after a run of the sweep, `break 'outer` on the wanted result and the
\* next pair otherwise, until the pairs are exhausted
D2_main_sweep ==
    /\ harness = "day2"
    /\ status = "halted"
    /\ IF run = 1
       THEN D2_main_start(Sweep_tape, 0, 0)
       ELSE IF At(mem, 0) # WANTED_RESULT /\ verb + 1 < SweepSize
       THEN D2_main_start(Sweep_tape, noun, verb + 1)
       ELSE IF At(mem, 0) # WANTED_RESULT /\ noun + 1 < SweepSize
       THEN D2_main_start(Sweep_tape, noun + 1, 0)
       ELSE /\ status' = "done"
            /\ UNCHANGED <<engine, program, script, mem, ctr, rel, input, output, prev>>
            /\ UNCHANGED <<harnessVars, painterVars, restVars>>

----------------------------------------------------------------------------
(* day11: Color, Turn, Direction, Painter.  The tracker is the thread of   *)
(* track_painter; the brain is the Program of int_code_emulator over a     *)
(* PipedIo, which is not in the sources: it is the engine of day9 whose    *)
(* read receives from the channel to the brain and whose write sends on    *)
(* the channel to the tracker, a failed send ending the run cleanly.       *)

\* IoRepr::repr of Color
Color_repr(c) == IF c = "Black" THEN "0" ELSE "1"

\* Color::from_str
Color_from_str(s) ==
    LET t == Trim(s)
    IN  CASE t = <<"0">> -> [ok |-> TRUE, val |-> "Black"]
          [] t = <<"1">> -> [ok |-> TRUE, val |-> "White"]
          [] OTHER       -> [ok |-> FALSE, val |-> "Black"]

\* Turn::from_str
Turn_from_str(s) ==
    LET t == Trim(s)
    IN  CASE t = <<"0">> -> [ok |-> TRUE, val |-> "Left"]
          [] t = <<"1">> -> [ok |-> TRUE, val |-> "Right"]
          [] OTHER       -> [ok |-> FALSE, val |-> "Left"]

\* a turn that is a quarter-turn from a vertical facing and its reverse
\* from a horizontal one
Direction_turn_Mirrored(self, turn) ==
    CASE (self = "Up" /\ turn = "Left") \/ (self = "Down" /\ turn = "Right") -> "Left"
      [] (self = "Up" /\ turn = "Right") \/ (self = "Down" /\ turn = "Left") -> "Right"
      [] (self = "Left" /\ turn = "Right") \/ (self = "Right" /\ turn = "Left") -> "Down"
      [] (self = "Right" /\ turn = "Right") \/ (self = "Left" /\ turn = "Left") -> "Up"

\* Direction::turn
Direction_turn(self, turn) ==
    CASE (self = "Up" /\ turn = "Left") \/ (self = "Down" /\ turn = "Right") -> "Left"
      [] (self = "Up" /\ turn = "Right") \/ (self = "Down" /\ turn = "Left") -> "Right"
      [] (self = "Left" /\ turn = "Right") \/ (self = "Right" /\ turn = "Left") -> "Up"
      [] (self = "Right" /\ turn = "Right") \/ (self = "Left" /\ turn = "Left") -> "Down"

\* a move that also drifts one unit along the other axis when facing Left
Direction_next_Drifts(self, p) ==
    CASE self = "Up"    -> <<p[1], p[2] + 1>>
      [] self = "Down"  -> <<p[1], p[2] - 1>>
      [] self = "Left"  -> <<p[1] - 1, p[2] + 1>>
      [] self = "Right" -> <<p[1] + 1, p[2]>>

\* Direction::next
Direction_next(self, p) ==
    CASE self = "Up"    -> <<p[1], p[2] + 1>>
      [] self = "Down"  -> <<p[1], p[2] - 1>>
      [] self = "Left"  -> <<p[1] - 1, p[2]>>
      [] self = "Right" -> <<p[1] + 1, p[2]>>

\* format!("{}\n", repr)
Line(repr) == <<repr, "\n">>

\* Receiver::recv taking the message sent last
Channel_recv_Last(q) == [val |-> q[Len(q)], rest |-> SubSeq(q, 1, Len(q) - 1)]

\* Receiver::recv on a channel that holds a message
Channel_recv(q) == [val |-> Head(q), rest |-> Tail(q)]

\* a channel that takes a message only when it holds none
Channel_ready_Bounded(q) == q = <<>>

\* mpsc::channel() is asynchronous and unbounded: Sender::send never waits
Channel_ready(q) == TRUE

\* the entry keeping the color it already has
Entry_KeepFirst(map, p, c) ==
    [q \in DOMAIN map \cup {p} |-> IF q \in DOMAIN map THEN map[q] ELSE c]

\* visited.entry(pos).and_modify(|c| *c = color).or_insert(color)
Entry(map, p, c) ==
    [q \in DOMAIN map \cup {p} |-> IF q = p THEN c ELSE map[q]]

\* the reply being the color just received
To_send_Echo(map, p) == Color_repr(color)

\* visited.get(&pos).map(|c| c.repr()).unwrap_or("0")
To_send(map, p) == IF p \in DOMAIN map THEN Color_repr(map[p]) ELSE "0"

\* the ends of the channels held by the brain are dropped when its run is over
Brain_gone == status \in {"halted", "stopped", "fatal"}

TrackerPanics ==
    { "panic: Failed to send initializing color", "panic: color",
      "panic: turn", "panic: turn text" }

\* the ends held by the tracker are dropped when track_painter is left
Tracker_gone == tpc \in {"returned"} \cup TrackerPanics

\* Painter::new on a tape and the start of Painter::run: the thread of
\* track_painter is spawned and program.run() is entered
Painter_run(tape, c) ==
    /\ mem' = tape
    /\ ctr' = 0
    /\ rel' = 0
    /\ input' = <<>>
    /\ output' = <<>>
    /\ status' = "running"
    /\ prev' = NoPrev
    /\ init' = c
    /\ toBrain' = <<>>
    /\ toTracker' = <<>>
    /\ tpc' = "init"
    /\ direction' = "Up"
    /\ visited' = NoMap
    /\ pos' = <<0, 0>>
    /\ color' = "Black"
    /\ pairs' = <<>>
    /\ sent' = <<>>
    /\ reads' = <<>>
    /\ painted' = NoPainted

\* one iteration of the loop of Program::run over PipedIo
Brain_run ==
    /\ engine = "day11"
    /\ status = "running"
    /\ LET op_code == Fetch
       IN  /\ (op_code.tag = "Ipt" /\ toBrain = <<>>) => Tracker_gone
           /\ (op_code.tag = "Opt" /\ ~Tracker_gone) => Channel_ready(toTracker)
           /\ prev' = Snapshot(op_code)
           /\ UNCHANGED <<engine, program, script, input>>
           /\ UNCHANGED <<harnessVars, restVars>>
           /\ UNCHANGED <<init, tpc, direction, visited, pos, color, pairs, sent, painted>>
           /\ IF op_code.tag = "Panic"
              THEN /\ status' = "fatal"
                   /\ UNCHANGED <<mem, ctr, rel, output, toBrain, toTracker, reads>>
              ELSE IF op_code.tag = "Ipt" /\ toBrain = <<>>
              THEN \* the sender is gone: what read does then is not specified
                   /\ status' \in {"fatal", "stopped"}
                   /\ UNCHANGED <<mem, ctr, rel, output, toBrain, toTracker, reads>>
              ELSE IF op_code.tag = "Opt" /\ Tracker_gone
              THEN \* the send fails: the run stops
                   /\ status' = "stopped"
                   /\ UNCHANGED <<mem, ctr, rel, output, toBrain, toTracker, reads>>
              ELSE \E overflow_checks \in BOOLEAN :
                   LET res == OpCode_exec(op_code, mem, toBrain, toTracker, rel,
                                          overflow_checks)
                   IN  /\ mem' = res.mem
                       /\ toBrain' = res.input
                       /\ toTracker' = res.output
                       /\ reads' = IF op_code.tag = "Ipt"
                                   THEN Append(reads, Head(toBrain)) ELSE reads
                       /\ output' = IF op_code.tag = "Opt" /\ ~res.panic
                                    THEN Append(output, res.output[Len(res.output)])
                                    ELSE output
                       /\ IF res.panic
                          THEN status' = "fatal" /\ UNCHANGED <<ctr, rel>>
                          ELSE IF res.incr.kind = "Exit"
                          THEN status' = "halted" /\ UNCHANGED <<ctr, rel>>
                          ELSE /\ status' = "running"
                               /\ ctr' = IF res.incr.kind = "Offset"
                                         THEN ctr + res.incr.n ELSE res.incr.n
                               /\ rel' = res.rel

\* what a step of the tracker leaves alone
TrackerFrame ==
    /\ UNCHANGED vmVars
    /\ UNCHANGED <<harnessVars, restVars>>
    /\ UNCHANGED <<init, reads, painted>>

\* Sender::send of the tracker: it fails when the brain's receiver is gone
Tracker_send(text, next, failed) ==
    IF Brain_gone
    THEN /\ sent' = Append(sent, [text |-> text, ok |-> FALSE])
         /\ tpc' = failed
         /\ UNCHANGED toBrain
    ELSE /\ Channel_ready(toBrain)
         /\ sent' = Append(sent, [text |-> text, ok |-> TRUE])
         /\ toBrain' = Append(toBrain, text)
         /\ tpc' = next

\* the tracker entering its loop without seeding the conversation
Tracker_send_init_Skipped ==
    /\ tpc = "init"
    /\ tpc' = "color"
    /\ UNCHANGED <<toBrain, toTracker, direction, visited, pos, color, pairs, sent>>
    /\ TrackerFrame

\* tx.send(format!("{}\n", init.repr())).expect("Failed to send initializing color")
Tracker_send_init ==
    /\ tpc = "init"
    /\ Tracker_send(Line(Color_repr(init)), "color",
                    "panic: Failed to send initializing color")
    /\ UNCHANGED <<toTracker, direction, visited, pos, color, pairs>>
    /\ TrackerFrame

\* the value the tracker leaves its loop with on a failed reply
Tracker_break_Panics == "panic: turn"

\* `break`, then `visited` is returned
Tracker_break == "returned"

\* while let Ok(val) = rx.recv() { let color = val.parse::<Color>().unwrap();
Tracker_recv_color ==
    /\ tpc = "color"
    /\ toTracker = <<>> => Brain_gone
    /\ IF toTracker = <<>>
       THEN /\ tpc' = "returned"
            /\ UNCHANGED <<toTracker, color>>
       ELSE LET got == Channel_recv(toTracker)
                c   == Color_from_str(got.val)
            IN  /\ toTracker' = got.rest
                /\ IF c.ok
                   THEN tpc' = "turn" /\ color' = c.val
                   ELSE tpc' = "panic: color" /\ UNCHANGED color
    /\ UNCHANGED <<toBrain, direction, visited, pos, pairs, sent>>
    /\ TrackerFrame

\* the closed channel ending the tracker at the turn as it does at the color
Turn_closed_Returns == "returned"

\* rx.recv().expect("turn") on a channel that is empty and closed
Turn_closed == "panic: turn"

\* let turn = rx.recv().expect("turn").parse::<Turn>().unwrap(); then the
\* entry of the color, direction.turn(turn) and pos = direction.next(pos)
Tracker_recv_turn ==
    /\ tpc = "turn"
    /\ toTracker = <<>> => Brain_gone
    /\ IF toTracker = <<>>
       THEN /\ tpc' = Turn_closed
            /\ UNCHANGED <<toTracker, direction, visited, pos, pairs>>
       ELSE LET got  == Channel_recv(toTracker)
                turn == Turn_from_str(got.val)
                d    == Direction_turn(direction, turn.val)
            IN  /\ toTracker' = got.rest
                /\ IF turn.ok
                   THEN /\ visited' = Entry(visited, pos, color)
                        /\ direction' = d
                        /\ pos' = Direction_next(d, pos)
                        /\ pairs' = Append(pairs, [color |-> color, turn |-> turn.val,
                                                   at |-> pos])
                        /\ tpc' = "reply"
                   ELSE /\ tpc' = "panic: turn text"
                        /\ UNCHANGED <<direction, visited, pos, pairs>>
    /\ UNCHANGED <<toBrain, color, sent>>
    /\ TrackerFrame

\* let to_send = ..; if let Err(_) = tx.send(format!("{}\n", to_send)) { break; }
Tracker_send_reply ==
    /\ tpc = "reply"
    /\ Tracker_send(Line(To_send(visited, pos)), "color", Tracker_break)
    /\ UNCHANGED <<toTracker, direction, visited, pos, color, pairs>>
    /\ TrackerFrame

\* the map being dropped when the last reply could not be sent
Returned_map_Lossy == IF sent # <<>> /\ ~sent[Len(sent)].ok THEN NoMap ELSE visited

\* `visited`, the value of track_painter
Returned_map == visited

\* thread.join().expect("Could not join thread") after program.run() returned
Painter_join ==
    /\ engine = "day11"
    /\ painted = NoPainted
    /\ status \in {"halted", "stopped"}
    /\ Tracker_gone
    /\ painted' = IF tpc = "returned"
                  THEN [state |-> "map", map |-> Returned_map]
                  ELSE [state |-> "panic: Could not join thread"]
    /\ UNCHANGED vmVars
    /\ UNCHANGED <<harnessVars, restVars>>
    /\ UNCHANGED <<init, toBrain, toTracker, tpc, direction, visited, pos, color,
                   pairs, sent, reads>>

\* the tape of the second painter of main, were it the one the first ran on
Second_tape_Reused == mem

\* `Painter::new(&mut mem)`: the first painter ran on mem_clone
Second_tape == program

\* main of day11 after the first painter returned its map: the second
\* painter, run on Color::White
Painter_main_second ==
    /\ harness = "day11"
    /\ run = 1
    /\ painted.state = "map"
    /\ Painter_run(Second_tape, "White")
    /\ first' = Outcome
    /\ run' = 2
    /\ UNCHANGED <<engine, program, script, harness, noun, verb>>
    /\ UNCHANGED restVars

\* the same painter run once more on the same tape and the same color
Painter_run_again ==
    /\ harness = "repaint"
    /\ run = 1
    /\ painted # NoPainted
    /\ Painter_run(program, init)
    /\ first' = Outcome
    /\ run' = 2
    /\ UNCHANGED <<engine, program, script, harness, noun, verb>>
    /\ UNCHANGED restVars

\* a brain that reads the color, paints the other color and turns right,
\* five times: it comes back to the panel it started on
Walker ==
    <<3, 30, 1002, 30, -1, 31, 101, 1, 31, 31, 4, 31, 104, 1, 1001, 32, 1, 32,
      1008, 32, 5, 33, 1006, 33, 0, 99, 0, 0, 0, 0, 0, 0, 0, 0>>

\* a brain that reads, writes a pair, reads, writes a pair and halts
Follower == <<3, 13, 104, 1, 104, 0, 3, 13, 104, 0, 104, 1, 99, 0>>

\* brains that keep to the protocol, brains that halt without reading,
\* in the middle of a pair or at once, and brains that write what is no
\* color or no turn
Brains ==
    { Walker, Follower,
      <<3, 9, 4, 9, 104, 0, 3, 9, 99, 0>>,
      <<104, 1, 104, 0, 99>>,
      <<104, 1, 104, 0, 104, 0, 104, 0, 99>>,
      <<104, 1, 99>>,
      <<104, 1, 104, 0, 104, 0, 99>>,
      <<99>>,
      <<104, 2, 104, 0, 3, 9, 3, 9, 99, 0>>,
      <<104, 2, 104, 0, 104, 1, 104, 1, 99>>,
      <<104, 1, 104, 2, 99>> }

\* brains that read the color, then write a color and a turn and read the
\* next color, any number of times, and halt after a read or after a pair
Protocol ==
    { Walker, Follower,
      <<3, 9, 4, 9, 104, 0, 3, 9, 99, 0>>,
      <<3, 3, 99, 0>> }

\* main of day11 at the first painter.run(Color::Black), and a painter run
\* on either color, for a brain of the set
PainterInitOn(brains) ==
    /\ \E p \in brains :
          /\ engine = "day11"
          /\ program = p
          /\ mem = p
    /\ \/ harness = "day11" /\ init = "Black"
       \/ harness = "repaint" /\ init \in {"Black", "White"}
    /\ script = <<>>
    /\ ctr = 0
    /\ rel = 0
    /\ input = <<>>
    /\ output = <<>>
    /\ status = "running"
    /\ prev = NoPrev
    /\ run = 1
    /\ first = NoFirst
    /\ noun = 0
    /\ verb = 0
    /\ toBrain = <<>>
    /\ toTracker = <<>>
    /\ tpc = "init"
    /\ direction = "Up"
    /\ visited = NoMap
    /\ pos = <<0, 0>>
    /\ color = "Black"
    /\ pairs = <<>>
    /\ sent = <<>>
    /\ reads = <<>>
    /\ painted = NoPainted
    /\ NoRest

PainterInit == PainterInitOn(Brains)

RunsInit ==
    \/ TwiceInit
    \/ D2_mainInit
    \/ PainterInit

RunsNext ==
    \/ Program_run
    \/ D5_Program_run
    \/ D2_Program_run
    \/ Run_again
    \/ D2_main_first
    \/ D2_main_sweep
    \/ Brain_run
    \/ Tracker_send_init
    \/ Tracker_recv_color
    \/ Tracker_recv_turn
    \/ Tracker_send_reply
    \/ Painter_join
    \/ Painter_main_second
    \/ Painter_run_again

RunsSpec == RunsInit /\ [][RunsNext]_vars

\* the steps of the thread of track_painter
Tracker_step ==
    \/ Tracker_send_init
    \/ Tracker_recv_color
    \/ Tracker_recv_turn
    \/ Tracker_send_reply

CoupledInit == PainterInitOn(Protocol)

CoupledNext ==
    \/ Brain_run
    \/ Tracker_send_init
    \/ Tracker_recv_color
    \/ Tracker_recv_turn
    \/ Tracker_send_reply
    \/ Painter_join
    \/ Painter_main_second
    \/ Painter_run_again

\* the painter on the brains of the protocol. The calling thread (the
\* brain's run, then the join and what main does next) and the spawned
\* thread of the tracker are two threads of the operating system: each
\* takes its next step when it has one that is not waiting on a channel.
CoupledSpec ==
    /\ CoupledInit
    /\ [][CoupledNext]_vars
    /\ WF_vars(Brain_run \/ Painter_join \/ Painter_main_second \/ Painter_run_again)
    /\ WF_vars(Tracker_step)

----------------------------------------------------------------------------
(* day9 on values beyond 32 and 64 bits.  The cells of the tape are i128;  *)
(* here a cell is the sequence of its limbs of four decimal digits, lowest *)
(* first and without leading zero limbs, so that sums and products are     *)
(* computed exactly.  The values are not negative and stay below 2^127,    *)
(* and the instructions are Add, Mul, Output and Halt with Positional and  *)
(* Immediate parameters: those of test_op_extra_case_2 and _3.             *)

Limb == 10000

RECURSIVE Wide(_)
Wide(n) == IF n = 0 THEN <<>> ELSE <<n % Limb>> \o Wide(n \div Limb)

\* `val as usize` of a cell that is an instruction word or an address: its
\* value when it has at most two limbs.  Cells of more limbs are operands
\* and results in WidePrograms, never words or addresses; as an address
\* such a cell would lie beyond the tape.
Narrow(w) ==
    CASE Len(w) = 0 -> 0
      [] Len(w) = 1 -> w[1]
      [] Len(w) = 2 -> w[1] + Limb * w[2]
      [] OTHER -> Limb * Limb

RECURSIVE Wide_sum(_, _, _)
Wide_sum(a, b, carry) ==
    IF a = <<>> /\ b = <<>> THEN (IF carry = 0 THEN <<>> ELSE <<carry>>)
    ELSE LET x == IF a = <<>> THEN 0 ELSE Head(a)
             y == IF b = <<>> THEN 0 ELSE Head(b)
             t == x + y + carry
         IN  <<t % Limb>> \o Wide_sum(IF a = <<>> THEN a ELSE Tail(a),
                                      IF b = <<>> THEN b ELSE Tail(b),
                                      t \div Limb)

\* i128 + i128
Wide_add(a, b) == Wide_sum(a, b, 0)

\* a times one limb
RECURSIVE Wide_scale(_, _, _)
Wide_scale(a, d, carry) ==
    IF a = <<>> THEN Wide(carry)
    ELSE LET t == Head(a) * d + carry
         IN  <<t % Limb>> \o Wide_scale(Tail(a), d, t \div Limb)

RECURSIVE Wide_strip(_)
Wide_strip(w) ==
    IF w # <<>> /\ w[Len(w)] = 0 THEN Wide_strip(SubSeq(w, 1, Len(w) - 1)) ELSE w

\* i128 * i128: a * b = a * b[1] + Limb * (a * Tail(b))
RECURSIVE Wide_mul(_, _)
Wide_mul(a, b) ==
    IF a = <<>> \/ b = <<>> THEN <<>>
    ELSE LET rest == Wide_mul(a, Tail(b))
         IN  Wide_strip(Wide_add(Wide_scale(a, Head(b), 0),
                                 IF rest = <<>> THEN <<>> ELSE <<0>> \o rest))

\* the four decimal digits of a limb that is not the highest
Limb_digits(d) ==
    <<DigitChars[(d \div 1000) + 1], DigitChars[((d \div 100) % 10) + 1],
      DigitChars[((d \div 10) % 10) + 1], DigitChars[(d % 10) + 1]>>

RECURSIVE Wide_lower(_)
Wide_lower(w) ==
    IF w = <<>> THEN <<>> ELSE Wide_lower(Tail(w)) \o Limb_digits(Head(w))

\* format!("{}", v) of an i128
Wide_format(w) ==
    IF w = <<>> THEN <<"0">>
    ELSE Digits(w[Len(w)]) \o Wide_lower(SubSeq(w, 1, Len(w) - 1))

\* Mode::from on wide cells
W_Mode_from(op_code, m, idx, off) ==
    LET mode == (op_code \div (10 ^ off)) % 10
    IN  IF idx + off >= Len(m) THEN ModePanic("index out of bounds")
        ELSE LET val == At(m, idx + off)
             IN  CASE mode = 0 -> Position(Narrow(val))
                   [] mode = 1 -> Immediate(val)
                   [] OTHER    -> ModePanic("mode outside this part of the model")

\* Mode::val on wide cells
W_Mode_val(self, m) ==
    CASE self.kind = "Position" -> IF self.v >= Len(m) THEN <<>> ELSE At(m, self.v)
      [] self.kind = "Immediate" -> self.v

\* OpCode::from on wide cells, for Add, Mul, Opt and Ext
W_OpCode_from(m, idx) ==
    IF idx >= Len(m) THEN OpPanic("index out of bounds")
    ELSE
    LET instruction == Narrow(At(m, idx))
        op_code     == instruction % 100
        mode_spec   == instruction \div 100
        pidx        == idx + 1
        p0          == W_Mode_from(mode_spec, m, pidx, 0)
        p1          == W_Mode_from(mode_spec, m, pidx, 1)
        p2          == W_Mode_from(mode_spec, m, pidx, 2)
    IN  CASE op_code = 1  -> Checked(Op3("Add", p0, p1, p2), <<p0, p1, p2>>)
          [] op_code = 2  -> Checked(Op3("Mul", p0, p1, p2), <<p0, p1, p2>>)
          [] op_code = 4  -> Checked(Op1("Opt", p0), <<p0>>)
          [] op_code = 99 -> OpExt
          [] OTHER        -> OpPanic("instruction outside this part of the model")

\* W_Computed keeping the two lowest limbs of the result
W_Computed_Narrow(self, m) ==
    LET r1 == W_Mode_val(self.r1, m)
        r2 == W_Mode_val(self.r2, m)
        v  == IF self.tag = "Add" THEN Wide_add(r1, r2) ELSE Wide_mul(r1, r2)
    IN  Wide_strip(SubSeq(v, 1, IF Len(v) < 2 THEN Len(v) ELSE 2))

\* the value Add and Mul assign: r1.val(mem, *rel) + r2.val(mem, *rel), and *
W_Computed(self, m) ==
    LET r1 == W_Mode_val(self.r1, m)
        r2 == W_Mode_val(self.r2, m)
    IN  IF self.tag = "Add" THEN Wide_add(r1, r2) ELSE Wide_mul(r1, r2)

\* OpCode::exec on wide cells, for Add, Mul, Opt and Ext
W_OpCode_exec(self, m, inp, out) ==
    CASE self.tag = "Ext" -> Returned(m, inp, out, 0, Exit)
      [] self.tag = "Opt" ->
            Returned(m, inp, MockIo_write(out, Wide_format(W_Mode_val(self.p, m))), 0,
                     Offset(OpCode_len(self)))
      [] self.tag \in {"Add", "Mul"} ->
            LET adr == Mode_adr(self.o, 0)
            IN  IF adr = -1 \/ adr + 1 > MaxVecLen THEN Panicked(m, inp, out, 0)
                ELSE LET m1 == IF adr >= Len(m)
                               THEN m \o [i \in 1..(adr + 1 - Len(m)) |-> <<>>]
                               ELSE m
                     IN  Store(m1, adr, W_Computed(self, m1), inp, out, 0,
                               Offset(OpCode_len(self)))

\* `let op_code = OpCode::from(self.mem, self.ctr);` on wide cells
W_Fetch == W_OpCode_from(mem, ctr)

\* one iteration of the loop of Program::run on wide cells
W_Program_run ==
    /\ engine = "day9"
    /\ harness = "wide"
    /\ status = "running"
    /\ prev' = Snapshot(W_Fetch)
    /\ UNCHANGED <<engine, program, script, rel>>
    /\ UNCHANGED <<harnessVars, painterVars, restVars>>
    /\ LET op_code == W_Fetch
       IN  IF op_code.tag = "Panic"
           THEN /\ status' = "fatal"
                /\ UNCHANGED <<mem, ctr, input, output>>
           ELSE LET res == W_OpCode_exec(op_code, mem, input, output)
                IN  /\ mem' = res.mem
                    /\ input' = res.input
                    /\ output' = res.output
                    /\ IF res.panic
                       THEN status' = "fatal" /\ UNCHANGED ctr
                       ELSE IF res.incr.kind = "Exit"
                       THEN status' = "halted" /\ UNCHANGED ctr
                       ELSE /\ status' = "running"
                            /\ ctr' = ctr + res.incr.n

\* 2^50, the value of test_op_extra_case_3
TwoTo50 == <<2624, 684, 8999, 1125>>

\* operands around the ends of 16, 32 and 64 bits
WideOperands ==
    { Wide(34915192), Wide(65535), Wide(65536), Wide(46341),
      Wide(2147483647), <<7295, 9496, 42>>, TwoTo50 }

\* the programs of test_op_extra_case_2 and _3 and their like: Add or Mul of
\* two literals or of two cells, to a cell inside or beyond the tape, then
\* Output of the result; Output of a literal
WidePrograms ==
    { <<Wide(Word(op, 1, 1, 0)), x, y, Wide(7), Wide(4), Wide(7), Wide(99), Wide(0)>> :
        op \in {1, 2}, x \in WideOperands, y \in WideOperands }
    \cup { <<Wide(op), Wide(8), Wide(9), Wide(10), Wide(4), Wide(10), Wide(99), Wide(0), x, y>> :
        op \in {1, 2}, x \in WideOperands, y \in WideOperands }
    \cup { <<Wide(104), x, Wide(99)>> : x \in WideOperands }

WideInit ==
    /\ \E p \in WidePrograms : Program_new("day9", p, <<>>)
    /\ OneRun("wide")
    /\ NoPainter
    /\ NoRest

WideNext == W_Program_run

WideSpec == WideInit /\ [][WideNext]_vars

----------------------------------------------------------------------------
(* day3: Point, Segment, Route, Runner.  A Point is <<x, y>>, a Segment    *)
(* the pair of its two Points, a Route its direction and its distance.     *)

\* no engine is running
NoEngine ==
    /\ engine = "none"
    /\ program = <<>>
    /\ script = <<>>
    /\ mem = <<>>
    /\ ctr = 0
    /\ rel = 0
    /\ status = "none"
    /\ input = <<>>
    /\ output = <<>>
    /\ prev = NoPrev

\* the calls of follow on one Runner
MaxCalls == 4

\* the distances of the routes: u32 values, those of the test among them
Distances == {0, 1, 4}

Routes == [dir : {"Up", "Down", "Left", "Right"}, n : Distances]

\* Segment::polarity_and_bounds
Segment_polarity_and_bounds(self) ==
    IF self[1][1] = self[2][1]
    THEN IF self[1][2] < self[2][2]
         THEN [polarity |-> "Vertical", low |-> self[1][2], high |-> self[2][2],
               bar |-> self[1][1]]
         ELSE [polarity |-> "Vertical", low |-> self[2][2], high |-> self[1][2],
               bar |-> self[1][1]]
    ELSE IF self[1][1] < self[2][1]
         THEN [polarity |-> "Horizontal", low |-> self[1][1], high |-> self[2][1],
               bar |-> self[1][2]]
         ELSE [polarity |-> "Horizontal", low |-> self[2][1], high |-> self[1][1],
               bar |-> self[1][2]]

\* Segment::length
Segment_length(self) ==
    LET b == Segment_polarity_and_bounds(self) IN b.high - b.low

\* the next point of follow with Down and Left adding like Up and Right
Runner_next_Adds(c, route) ==
    IF route.dir \in {"Up", "Down"} THEN <<c[1], c[2] + route.n>>
    ELSE <<c[1] + route.n, c[2]>>

\* `let next = match route { .. }` of Runner::follow
Runner_next(c, route) ==
    CASE route.dir = "Up"    -> <<c[1], c[2] + route.n>>
      [] route.dir = "Down"  -> <<c[1], c[2] - route.n>>
      [] route.dir = "Left"  -> <<c[1] - route.n, c[2]>>
      [] route.dir = "Right" -> <<c[1] + route.n, c[2]>>

\* Runner::new
Runner_new ==
    /\ path = <<>>
    /\ cursor = <<0, 0>>
    /\ routes = <<>>

\* Runner::follow
Runner_follow ==
    /\ harness = "runner"
    /\ Len(routes) < MaxCalls
    /\ \E route \in Routes :
          LET next == Runner_next(cursor, route)
          IN  /\ path' = Append(path, <<cursor, next>>)
              /\ cursor' = next
              /\ routes' = Append(routes, route)
    /\ UNCHANGED <<vmVars, harnessVars, painterVars>>
    /\ UNCHANGED <<treeVars, passwordVars, fuelVars>>

RunnerInit ==
    /\ NoEngine
    /\ OneRun("runner")
    /\ NoPainter
    /\ Runner_new
    /\ NoTree
    /\ NoPassword
    /\ NoFuel

RunnerNext == Runner_follow

RunnerSpec == RunnerInit /\ [][RunnerNext]_vars

----------------------------------------------------------------------------
(* day6: Node.  A Node is the record of its val and of the sequence of its *)
(* children; a mutable reference into a tree is the path of child indices  *)
(* that leads to the node.                                                 *)

\* the nodes a tree may have
MaxNodes == 5

Names == {"A", "B", "C"}

Leaf(v) == [val |-> v, children |-> <<>>]

\* Node::new
Node_new(v, first_child) == [val |-> v, children |-> <<Leaf(first_child)>>]

RECURSIVE Node_size(_)
Node_size(self) ==
    IF self.children = <<>> THEN 1
    ELSE LET RECURSIVE Upto(_)
             Upto(i) == IF i = 0 THEN 0 ELSE Upto(i - 1) + Node_size(self.children[i])
         IN  1 + Upto(Len(self.children))

Min(S) == CHOOSE x \in S : \A y \in S : x <= y

\* find_node_mut looking at the node and its children only
Node_find_node_mut_Shallow(self, key) ==
    IF self.val = key THEN [found |-> TRUE, path |-> <<>>]
    ELSE LET hits == {i \in 1..Len(self.children) : self.children[i].val = key}
         IN  IF hits = {} THEN [found |-> FALSE, path |-> <<>>]
             ELSE [found |-> TRUE, path |-> <<Min(hits)>>]

\* Node::find_node_mut
RECURSIVE Node_find_node_mut(_, _)
Node_find_node_mut(self, key) ==
    IF self.val = key THEN [found |-> TRUE, path |-> <<>>]
    ELSE LET hits == {i \in 1..Len(self.children) :
                        Node_find_node_mut(self.children[i], key).found}
         IN  IF hits = {} THEN [found |-> FALSE, path |-> <<>>]
             ELSE [found |-> TRUE,
                   path |-> <<Min(hits)>>
                            \o Node_find_node_mut(self.children[Min(hits)], key).path]

\* node.children.append(..) on the node the path leads to
RECURSIVE Node_append(_, _, _)
Node_append(self, p, kids) ==
    IF p = <<>> THEN [self EXCEPT !.children = @ \o kids]
    ELSE [self EXCEPT !.children[Head(p)] = Node_append(@, Tail(p), kids)]

\* Node::merge: the receiver and other afterwards, and the bool returned
Node_merge(self, other) ==
    LET node == Node_find_node_mut(self, other.val)
    IN  IF node.found
        THEN [self |-> Node_append(self, node.path, other.children),
              other |-> [other EXCEPT !.children = <<>>],
              ret |-> TRUE]
        ELSE [self |-> self, other |-> other, ret |-> FALSE]

\* the nodes of parse
News == { Node_new(a, b) : a \in Names, b \in Names }

\* the nodes merge is given: those of parse, those a merge has emptied,
\* and those a merge has added to
Others ==
    News \cup { Leaf(a) : a \in Names }
    \cup { Node_merge(x, y).self : x \in News, y \in News }

\* self.merge(&mut other)
Tree_merge ==
    /\ harness = "day6"
    /\ Node_size(tree) < MaxNodes
    /\ \E other \in Others :
          LET res == Node_merge(tree, other)
          IN  /\ tree' = res.self
              /\ call' = [none |-> FALSE, self |-> tree, other |-> other,
                          left |-> res.other, ret |-> res.ret]
    /\ UNCHANGED <<vmVars, harnessVars, painterVars>>
    /\ UNCHANGED <<runnerVars, passwordVars, fuelVars>>

TreeInit ==
    /\ NoEngine
    /\ OneRun("day6")
    /\ NoPainter
    /\ NoRunner
    /\ tree \in News
    /\ call = NoCall
    /\ NoPassword
    /\ NoFuel

TreeNext == Tree_merge

TreeSpec == TreeInit /\ [][TreeNext]_vars

----------------------------------------------------------------------------
(* day4: impl ValidPassword for u32 *)

\* the passwords below this bound are all checked
MaxPassword == 12999

\* the loop of is_valid, from its test `n > 0` on
RECURSIVE Is_valid_loop(_, _, _, _)
Is_valid_loop(n, a, b, double) ==
    IF n > 0
    THEN IF a < b THEN FALSE
         ELSE LET n1 == n \div 10
              IN  Is_valid_loop(n1, n1 % 10, (n1 \div 10) % 10,
                                double \/ (a = b /\ a # 0))
    ELSE double

\* ValidPassword::is_valid
Is_valid(self) ==
    LET a == self % 10
        b == (self \div 10) % 10
    IN  IF a = 0 \/ b = 0 THEN FALSE ELSE Is_valid_loop(self, a, b, FALSE)

\* a bucket counting for any number of pairs
Bucket_hit_Any(c) == c >= 1

\* `*c == 1`
Bucket_hit(c) == c = 1

\* the loop of is_valid2: the bucket of digit d is bucket[d], which is
\* bucket[(d - 1) as usize] of the code
RECURSIVE Is_valid2_loop(_, _, _, _)
Is_valid2_loop(n, a, b, bucket) ==
    IF n > 0
    THEN IF a < b THEN FALSE
         ELSE LET n1 == n \div 10
              IN  Is_valid2_loop(n1, n1 % 10, (n1 \div 10) % 10,
                                 IF a = b /\ a # 0
                                 THEN [bucket EXCEPT ![a] = @ + 1] ELSE bucket)
    ELSE \E d \in 1..9 : Bucket_hit(bucket[d])

\* ValidPassword::is_valid2
Is_valid2(self) ==
    LET a == self % 10
        b == (self \div 10) % 10
    IN  IF a = 0 \/ b = 0 THEN FALSE
        ELSE Is_valid2_loop(self, a, b, [d \in 1..9 |-> 0])

\* the passwords of the test valid_passwords, and all the small ones
Passwords ==
    0..MaxPassword
    \cup {111111, 647011, 223450, 123789, 112233, 123444, 111122}

\* n.is_valid() and n.is_valid2()
Password_check ==
    /\ harness = "day4"
    /\ valid = [none |-> TRUE]
    /\ valid' = [none |-> FALSE, is_valid |-> Is_valid(password),
                 is_valid2 |-> Is_valid2(password)]
    /\ UNCHANGED password
    /\ UNCHANGED <<vmVars, harnessVars, painterVars>>
    /\ UNCHANGED <<runnerVars, treeVars, fuelVars>>

PasswordInit ==
    /\ NoEngine
    /\ OneRun("day4")
    /\ NoPainter
    /\ NoRunner
    /\ NoTree
    /\ password \in Passwords
    /\ valid = [none |-> TRUE]
    /\ NoFuel

PasswordNext == Password_check

PasswordSpec == PasswordInit /\ [][PasswordNext]_vars

----------------------------------------------------------------------------
(* day1: fuel_for, all_fuel_for *)

\* the masses below this bound are all run
MaxMass == 400

\* fuel_for with a subtraction that goes below zero
Fuel_for_Signed(m) == (m \div 3) - 2

\* fuel_for: (mass / 3).saturating_sub(2)
Fuel_for(m) == LET third == m \div 3 IN IF third < 2 THEN 0 ELSE third - 2

\* the masses of the tests, and all the small ones
Masses == 0..MaxMass \cup {1969, 100756}

\* let mut sum = fuel_for(mass); let mut last_sum = sum;
All_fuel_for_enter ==
    /\ fpc = "enter"
    /\ sum' = Fuel_for(mass)
    /\ last_sum' = Fuel_for(mass)
    /\ fpc' = "while"
    /\ UNCHANGED mass

\* while last_sum > 0 { last_sum = fuel_for(last_sum); sum += last_sum; }
All_fuel_for_while ==
    /\ fpc = "while"
    /\ last_sum > 0
    /\ last_sum' = Fuel_for(last_sum)
    /\ sum' = sum + Fuel_for(last_sum)
    /\ UNCHANGED <<mass, fpc>>

\* the loop is left and sum is returned
All_fuel_for_return ==
    /\ fpc = "while"
    /\ ~(last_sum > 0)
    /\ fpc' = "returned"
    /\ UNCHANGED <<mass, sum, last_sum>>

FuelInit ==
    /\ NoEngine
    /\ OneRun("day1")
    /\ NoPainter
    /\ NoRunner
    /\ NoTree
    /\ NoPassword
    /\ mass \in Masses
    /\ sum = 0
    /\ last_sum = 0
    /\ fpc = "enter"

FuelNext ==
    /\ \/ All_fuel_for_enter
       \/ All_fuel_for_while
       \/ All_fuel_for_return
    /\ UNCHANGED <<vmVars, harnessVars, painterVars>>
    /\ UNCHANGED <<runnerVars, treeVars, passwordVars>>

\* the thread of all_fuel_for is not held up
FuelSpec == FuelInit /\ [][FuelNext]_vars /\ WF_vars(FuelNext)

----------------------------------------------------------------------------
(* Vocabulary of the properties: the instruction of the last iteration, read *)
(* off the tape as it was when the iteration started (prev.mem, prev.ctr)    *)

Stepped == ~prev.none

PWord == At(prev.mem, prev.ctr)
POp   == IF engine = "day2" THEN PWord ELSE PWord % 100

OpsOf(e) ==
    CASE e = "day9" -> {1, 2, 3, 4, 5, 6, 7, 8, 9, 99}
      [] e = "day5" -> {1, 2, 3, 4, 5, 6, 7, 8, 99}
      [] e = "day2" -> {1, 2, 99}

DigitsOf(e) ==
    CASE e = "day9" -> {0, 1, 2}
      [] e = "day5" -> {0, 1}
      [] e = "day2" -> {0}

Arity(op) ==
    CASE op \in {1, 2, 7, 8} -> 3
      [] op \in {5, 6} -> 2
      [] op \in {3, 4, 9} -> 1
      [] OTHER -> 0

\* the k-th parameter word (k = 1, 2, 3) and its mode digit
PParam(k) == At(prev.mem, prev.ctr + k)
PDigit(k) == IF engine = "day2" THEN 0 ELSE (PWord \div (10 ^ (k + 1))) % 10

\* the last iteration found an instruction of the engine, all inside the tape
Decoded ==
    /\ Stepped
    /\ prev.ctr < Len(prev.mem)
    /\ PWord >= 0
    /\ POp \in OpsOf(engine)
    /\ prev.ctr + Arity(POp) < Len(prev.mem)

\* ... whose mode digits are modes of the engine, none Immediate on a write target
WellFormed ==
    /\ Decoded
    /\ \A k \in 1..Arity(POp) : PDigit(k) \in DigitsOf(engine)
    /\ POp \in {1, 2, 7, 8} => PDigit(3) # 1
    /\ POp = 3 => PDigit(1) # 1

\* the address a Positional or Relative parameter resolves to
PAddr(k) == IF PDigit(k) = 2 THEN prev.rel + PParam(k) ELSE PParam(k)

\* the parameter that is the write target of Add, Mul, Input, LessThan, Equals
TargetParam == IF POp = 3 THEN 1 ELSE 3

\* a read of the tape: 0 at or beyond its length
Cell(m, a) == IF a < Len(m) THEN At(m, a) ELSE 0

\* the value of the k-th parameter as an operand
PValue(k) == IF PDigit(k) = 1 THEN PParam(k) ELSE Cell(prev.mem, PAddr(k))

\* the k-th parameter is a literal or resolves to a non-negative address
ValidRead(k) == PDigit(k) = 1 \/ PAddr(k) >= 0

----------------------------------------------------------------------------
(* C1 *)

C1_Result ==
    CASE POp = 1 -> PValue(1) + PValue(2)
      [] POp = 2 -> PValue(1) * PValue(2)
      [] POp = 7 -> IF PValue(1) < PValue(2) THEN 1 ELSE 0
      [] POp = 8 -> IF PValue(1) = PValue(2) THEN 1 ELSE 0

\* C1: in every engine that has the opcode, an executed Add, Mul, LessThan or
\* Equals stores r1+r2, r1*r2, (r1<r2 ? 1 : 0) or (r1=r2 ? 1 : 0) at the output
\* address, r1 and r2 being the operand values of the tape before the write,
\* and no other cell of the tape changes.
C1_ArithmeticStores ==
    (WellFormed /\ POp \in {1, 2, 7, 8} /\ status = "running") =>
        /\ PAddr(3) >= 0
        /\ Len(mem) >= Len(prev.mem)
        /\ Len(mem) > PAddr(3)
        /\ \A i \in 0..(Len(prev.mem) - 1) :
              i # PAddr(3) => At(mem, i) = At(prev.mem, i)
        /\ (ValidRead(1) /\ ValidRead(2)) => At(mem, PAddr(3)) = C1_Result

\* an Add whose output address is the address of its first operand was
\* executed and changed that cell
C1_Witness ==
    /\ WellFormed /\ POp = 1 /\ status = "running"
    /\ PDigit(1) = 0 /\ PDigit(3) = 0 /\ PParam(1) = PParam(3)
    /\ PParam(3) < Len(prev.mem)
    /\ At(mem, PParam(3)) # At(prev.mem, PParam(3))

----------------------------------------------------------------------------
(* C2 *)

SelfModifying == <<1, 1, 1, 4, 99, 5, 6, 0, 99>>

\* C2: every instruction is decoded from the tape as it is when the counter
\* reaches it: what an iteration does is what the word then at the counter
\* asks for (a run returns only on a word that is Halt at that moment, and an
\* executed instruction moves the counter by the width of the opcode then in
\* the tape), and the run of [1,1,1,4,99,5,6,0,99] executes the Mul it has
\* created at address 4 and halts at address 8 with [30,1,1,4,2,5,6,0,99].
C2_DecodesCurrentTape ==
    /\ (Stepped /\ status = "halted") =>
          /\ prev.ctr < Len(prev.mem)
          /\ POp = 99
          /\ prev.op.tag \in {"Ext", "Exit"}
    /\ (Stepped /\ status = "running") =>
          /\ Decoded
          /\ POp \in {1, 2, 7, 8} => ctr = prev.ctr + 4
          /\ POp \in {3, 4, 9} => ctr = prev.ctr + 2
    /\ (program = SelfModifying /\ status = "halted") =>
          /\ mem = <<30, 1, 1, 4, 2, 5, 6, 0, 99>>
          /\ ctr = 8
    /\ (program = SelfModifying /\ Stepped) => status # "fatal"

\* the run of [1,1,1,4,99,5,6,0,99] has executed the word at address 4, which
\* the program held as 99 and the tape as 2, as a Mul
C2_Witness ==
    /\ program = SelfModifying
    /\ Stepped /\ prev.ctr = 4
    /\ At(program, 4) = 99 /\ At(prev.mem, 4) = 2
    /\ At(mem, 0) = 30 /\ ctr = 8 /\ status = "running"

----------------------------------------------------------------------------
(* C3 *)

TagOf(op) ==
    CASE op = 1 -> "Add" [] op = 2 -> "Mul" [] op = 3 -> "Ipt" [] op = 4 -> "Opt"
      [] op = 5 -> "Jtr" [] op = 6 -> "Jfl" [] op = 7 -> "Les" [] op = 8 -> "Eql"
      [] op = 9 -> "Crl" [] op = 99 -> "Ext"

KindOf(digit) ==
    CASE digit = 0 -> "Position" [] digit = 1 -> "Immediate" [] digit = 2 -> "Relative"

\* the parameters of a decoded instruction, in the order of the tape
ParamsOf(op) ==
    CASE op.tag \in {"Add", "Mul", "Les", "Eql"} -> <<op.r1, op.r2, op.o>>
      [] op.tag \in {"Jtr", "Jfl"} -> <<op.r1, op.jmp>>
      [] op.tag \in {"Ipt", "Opt", "Crl"} -> <<op.p>>
      [] OTHER -> <<>>

\* C3: the day9 decoder takes opcode = w % 100 and, for the 0-based parameter
\* position p, mode = (w / 10^(2+p)) % 10 with 0 = Positional, 1 = Immediate and
\* 2 = Relative; 1002 decodes as Mul with modes Positional, Immediate, Positional.
C3_DecodeDigits ==
    (engine = "day9" /\ Stepped /\ prev.op.tag # "Panic") =>
        /\ prev.ctr < Len(prev.mem)
        /\ PWord >= 0
        /\ PWord % 100 \in OpsOf("day9")
        /\ prev.op.tag = TagOf(PWord % 100)
        /\ Len(ParamsOf(prev.op)) = Arity(PWord % 100)
        /\ \A p \in 0..(Arity(PWord % 100) - 1) :
              LET digit == (PWord \div (10 ^ (2 + p))) % 10
              IN  /\ digit \in {0, 1, 2}
                  /\ ParamsOf(prev.op)[p + 1].kind = KindOf(digit)
        /\ PWord = 1002 =>
              /\ prev.op.tag = "Mul"
              /\ prev.op.r1.kind = "Position"
              /\ prev.op.r2.kind = "Immediate"
              /\ prev.op.o.kind = "Position"

\* the word 1002 has been decoded and executed
C3_Witness ==
    /\ engine = "day9" /\ Stepped /\ prev.ctr < Len(prev.mem)
    /\ PWord = 1002 /\ prev.op.tag = "Mul" /\ status = "running"

----------------------------------------------------------------------------
(* C4 *)

\* the parameters an instruction resolves whatever the values it reads (the
\* target of a jump is resolved only when the jump is taken)
Resolved(op) == IF op \in {5, 6} THEN {1} ELSE 1..Arity(op)

\* C4: in day9, whenever a Positional parameter's value is negative, or a
\* Relative parameter's relative_base + offset is negative, the engine stops
\* with a fatal error, for operand reads as well as for write targets.
C4_NegativeAddressFatal ==
    (engine = "day9" /\ WellFormed
       /\ \E k \in Resolved(POp) : PDigit(k) \in {0, 2} /\ PAddr(k) < 0)
    => status = "fatal"

\* the part of C4 that the code does keep: an instruction whose write target
\* resolves to a negative address ends in a fatal error
C4_NegativeTargetFatal ==
    (engine = "day9" /\ WellFormed /\ POp \in {1, 2, 3, 7, 8}
       /\ PAddr(TargetParam) < 0)
    => status = "fatal"

----------------------------------------------------------------------------
(* C5 *)

\* the k-th parameter is a Positional or Relative operand that resolves to an
\* address at or beyond the end of the tape
Beyond(k) == PDigit(k) \in {0, 2} /\ PAddr(k) >= Len(prev.mem)

\* C5: in day9 an operand read at or beyond the end of the tape yields 0 (so
\* Output emits "0", JumpIfTrue falls through, JumpIfFalse jumps, the relative
\* base is adjusted by 0 and Add, Mul, LessThan, Equals of two such operands
\* store 0, 0, 0, 1), and Output, the jumps and AdjustRelativeBase leave the
\* length and every cell of the tape unchanged.
C5_ReadBeyondTape ==
    (engine = "day9" /\ WellFormed) =>
        /\ POp \in {4, 5, 6, 9} => mem = prev.mem
        /\ (POp = 4 /\ Beyond(1)) =>
              status = "running" /\ output = Append(prev.output, <<"0">>)
        /\ (POp = 5 /\ Beyond(1)) =>
              status = "running" /\ ctr = prev.ctr + 3
        /\ (POp = 6 /\ Beyond(1) /\ PDigit(2) = 1 /\ PParam(2) >= 0) =>
              status = "running" /\ ctr = PParam(2)
        /\ (POp = 9 /\ Beyond(1)) =>
              status = "running" /\ rel = prev.rel /\ ctr = prev.ctr + 2
        /\ (POp \in {1, 2, 7, 8} /\ Beyond(1) /\ Beyond(2) /\ status = "running") =>
              /\ Len(mem) > PAddr(3)
              /\ At(mem, PAddr(3)) = IF POp = 8 THEN 1 ELSE 0

\* an Output of a Relative operand beyond the end of the tape was executed
\* under a relative base other than 0
C5_Witness ==
    /\ engine = "day9" /\ WellFormed /\ POp = 4 /\ PDigit(1) = 2
    /\ prev.rel > 0 /\ PParam(1) < Len(prev.mem) /\ Beyond(1)
    /\ status = "running" /\ Len(output) = Len(prev.output) + 1

----------------------------------------------------------------------------
(* C6 *)

\* when Add, Mul, LessThan, Equals or Input targets an address a at or beyond
\* the length L of the tape, the tape is extended to length exactly a+1, the
\* cells L..a-1 hold 0 and the cells below L keep their values
C6_GrowthExact ==
    (engine = "day9" /\ WellFormed /\ POp \in {1, 2, 3, 7, 8}
       /\ PAddr(TargetParam) >= Len(prev.mem)) =>
        /\ Len(mem) = PAddr(TargetParam) + 1
        /\ \A i \in Len(prev.mem)..(PAddr(TargetParam) - 1) : At(mem, i) = 0
        /\ \A i \in 0..(Len(prev.mem) - 1) : At(mem, i) = At(prev.mem, i)

\* C6: in day9 a write to an address a >= L extends the tape to exactly a+1
\* zero-filled cells, and across a whole run the length of the tape never
\* decreases.
C6_TapeNeverShrinks ==
    /\ C6_GrowthExact
    /\ (engine = "day9" /\ Stepped) => Len(mem) >= Len(prev.mem)

----------------------------------------------------------------------------
(* C7 *)

\* a read of the tape at relative base + offset
RelOperand(k) == Cell(prev.mem, prev.rel + PParam(k))

QuineOutput ==
    << <<"1", "0", "9">>, <<"1">>, <<"2", "0", "4">>, <<"-", "1">>,
       <<"1", "0", "0", "1">>, <<"1", "0", "0">>, <<"1">>, <<"1", "0", "0">>,
       <<"1", "0", "0", "8">>, <<"1", "0", "0">>, <<"1", "6">>, <<"1", "0", "1">>,
       <<"1", "0", "0", "6">>, <<"1", "0", "1">>, <<"0">>, <<"9", "9">> >>

\* C7: in day9 a Relative(offset) parameter resolves to relative_base + offset
\* with the base in force when the instruction executes, for operand reads
\* and for write targets, and the quine outputs its own 16 words in order,
\* halts, and leaves a tape of length 102 with 16 at address 100 and 1 at 101.
C7_RelativeResolution ==
    /\ (engine = "day9" /\ WellFormed /\ status = "running") =>
          /\ (POp \in {1, 2, 7, 8} /\ PDigit(3) = 2) =>
                /\ prev.rel + PParam(3) >= 0
                /\ Len(mem) > prev.rel + PParam(3)
                /\ (PDigit(1) = 1 /\ PDigit(2) = 1 /\ POp = 1) =>
                      At(mem, prev.rel + PParam(3)) = PParam(1) + PParam(2)
          /\ (POp = 1 /\ PDigit(1) = 2 /\ PDigit(2) = 1 /\ PDigit(3) = 0
                /\ prev.rel + PParam(1) >= 0) =>
                At(mem, PParam(3)) = RelOperand(1) + PParam(2)
          /\ (POp = 9 /\ PDigit(1) = 2 /\ prev.rel + PParam(1) >= 0) =>
                rel = prev.rel + RelOperand(1)
          /\ (POp = 5 /\ PDigit(1) = 2 /\ PDigit(2) = 1 /\ prev.rel + PParam(1) >= 0
                /\ RelOperand(1) # 0 /\ PParam(2) >= 0) =>
                ctr = PParam(2)
    /\ (engine = "day9" /\ program = Quine /\ Stepped) => status # "fatal"
    /\ (engine = "day9" /\ program = Quine) =>
          /\ Len(output) <= 16
          /\ output = SubSeq(QuineOutput, 1, Len(output))
    /\ (engine = "day9" /\ program = Quine /\ status = "halted") =>
          /\ output = QuineOutput
          /\ Len(mem) = 102
          /\ At(mem, 100) = 16
          /\ At(mem, 101) = 1
          /\ SubSeq(mem, 1, 16) = Quine

\* the quine has run to its Halt
C7_Witness ==
    /\ engine = "day9" /\ program = Quine /\ status = "halted"
    /\ Len(output) = 16 /\ Len(mem) = 102 /\ rel = 16

----------------------------------------------------------------------------
(* C8 *)

----------------------------------------------------------------------------
(* C9 *)

\* C9: in day9 the relative base is 0 when a run starts and only
\* AdjustRelativeBase changes it: every other iteration leaves it unchanged.
C9_RelativeBaseFrame ==
    engine = "day9" =>
        /\ prev.none => rel = 0
        /\ (Stepped /\ ~(Decoded /\ POp = 9)) => rel = prev.rel

\* a jump was taken under a relative base other than 0, which it left alone
C9_Witness ==
    /\ engine = "day9" /\ WellFormed /\ POp \in {5, 6}
    /\ status = "running" /\ ctr # prev.ctr + 3
    /\ prev.rel > 0 /\ rel = prev.rel

----------------------------------------------------------------------------
(* C10 *)

JumpTaken == IF POp = 5 THEN PValue(1) # 0 ELSE PValue(1) = 0

\* C10: JumpIfTrue sets the counter to the target value exactly when r1 is not
\* zero (negative values included) and otherwise to pc+3; JumpIfFalse sets it
\* to the target value exactly when r1 is 0 and otherwise to pc+3; a taken jump
\* sets the counter to the target itself (as the unsigned number the counter
\* is: a target value that is not negative unchanged), and neither changes the
\* tape.
C10_Jumps ==
    (engine \in {"day9", "day5"} /\ WellFormed /\ POp \in {5, 6} /\ ValidRead(1)) =>
        /\ status = "running"
        /\ mem = prev.mem
        /\ ~JumpTaken => ctr = prev.ctr + 3
        /\ (JumpTaken /\ ValidRead(2)) =>
              /\ ctr = PValue(2) % UsizeModulus
              /\ PValue(2) >= 0 => ctr = PValue(2)

\* a JumpIfTrue on a negative value was taken, to an address other than pc+3
C10_Witness ==
    /\ engine \in {"day9", "day5"} /\ WellFormed /\ POp = 5 /\ ValidRead(1)
    /\ PValue(1) < 0 /\ ValidRead(2) /\ PValue(2) >= 0
    /\ ctr = PValue(2) /\ ctr # prev.ctr + 3 /\ status = "running"

----------------------------------------------------------------------------
(* C11 *)

Width(op) ==
    CASE op \in {1, 2, 7, 8} -> 4
      [] op \in {5, 6} -> 3
      [] op \in {3, 4, 9} -> 2
      [] OTHER -> 1

\* C11: the counter is 0 when a run starts and changes only by an executed
\* instruction: an iteration that ends the run (Halt or a fatal error) leaves
\* it alone, and every executed instruction that is not a taken jump sets it
\* to pc + width, the width being 4 for Add, Mul, LessThan, Equals, 3 for an
\* untaken JumpIfTrue or JumpIfFalse and 2 for Input, Output and
\* AdjustRelativeBase.
C11_CounterAdvance ==
    /\ prev.none => ctr = 0
    /\ (Stepped /\ status # "running") => ctr = prev.ctr
    /\ (Stepped /\ status = "running") =>
          /\ Decoded
          /\ POp # 99
          /\ POp \notin {5, 6} => ctr = prev.ctr + Width(POp)
          /\ (POp \in {5, 6} /\ WellFormed /\ ValidRead(1) /\ ~JumpTaken) =>
                ctr = prev.ctr + 3

\* an Input that is not the first instruction of its run was executed and
\* moved the counter by 2
C11_Witness ==
    /\ Decoded /\ POp = 3 /\ status = "running"
    /\ prev.ctr > 0 /\ ctr = prev.ctr + 2

----------------------------------------------------------------------------
(* C12 *)

\* the last iteration found, inside the tape, a word whose opcode is 99
FetchedHalt ==
    /\ Stepped
    /\ prev.ctr < Len(prev.mem)
    /\ IF engine = "day2" THEN PWord = 99 ELSE Rem(PWord, 100) = 99

HaltStep ==
    FetchedHalt =>
        /\ status = "halted"
        /\ mem = prev.mem
        /\ input = prev.input
        /\ output = prev.output
        /\ ctr = prev.ctr
        /\ rel = prev.rel

\* C12: when the word at the counter has opcode 99 the run returns at once:
\* the Halt step changes no cell of the tape and neither reads from nor writes
\* to the I/O boundary, and no instruction is executed afterwards (no step
\* leaves a halted state).
C12_HaltReturns == [](HaltStep) /\ [][status # "halted"]_vars

\* a run that has consumed input and produced output has halted
C12_Witness ==
    /\ FetchedHalt /\ status = "halted"
    /\ prev.ctr > 0 /\ output # <<>> /\ Len(input) < Len(script)

----------------------------------------------------------------------------
(* C13 *)

\* C13: a run returns normally if and only if execution reaches a word whose
\* opcode is 99, and there is no step limit: the run of [1105,1,0], which
\* reaches neither Halt nor a fatal error, is running in every state, jumps
\* back to address 0 over an unchanged tape, and can always take one more
\* iteration.
C13_ReturnsOnlyOnHalt ==
    /\ status = "halted" <=> FetchedHalt
    /\ (program = Looping /\ engine \in {"day9", "day5"}) =>
          /\ status = "running"
          /\ ctr = 0
          /\ mem = Looping
          /\ ENABLED Next

\* [1105,1,0] has executed its jump and stands at address 0 again, running
C13_Witness ==
    /\ program = Looping /\ engine \in {"day9", "day5"}
    /\ Stepped /\ PWord = 1105 /\ prev.ctr = 0
    /\ ctr = 0 /\ status = "running" /\ ENABLED Next

----------------------------------------------------------------------------
(* C14 *)

\* the last iteration found, inside the tape, a word whose word % 100 is not
\* an opcode of the engine
UnknownWord ==
    /\ Stepped
    /\ prev.ctr < Len(prev.mem)
    /\ Rem(PWord, 100) \notin OpsOf(engine)

\* C14: in every engine, when word % 100 of the word at the counter is outside
\* the engine's opcode table (1-9 and 99 in day9, 1-8 and 99 in day5, 1, 2 and
\* 99 in day2), the engine stops with a fatal error of the decoder, with the
\* tape, the counter, the relative base, the input queue and the output log
\* as they were: the word is neither skipped nor taken for another opcode.
C14_UnknownOpcodeFatal ==
    UnknownWord =>
        /\ status = "fatal"
        /\ prev.op.tag = "Panic"
        /\ mem = prev.mem
        /\ ctr = prev.ctr
        /\ rel = prev.rel
        /\ input = prev.input
        /\ output = prev.output

\* a run that has moved its relative base and written output has stopped on
\* a word that is no instruction
C14_Witness ==
    /\ UnknownWord /\ status = "fatal"
    /\ prev.ctr > 0 /\ prev.rel > 0 /\ prev.output # <<>>

----------------------------------------------------------------------------
(* C15 *)

\* the last iteration found an instruction one of whose parameters has a
\* mode digit from 3 to 9
BadModeDigit ==
    /\ Decoded
    /\ \E k \in 1..Arity(POp) : PDigit(k) \in 3..9

\* C15: in day9 an instruction with a parameter whose mode digit is 3 to 9 is
\* a fatal error of the decoder: the engine stops without executing the
\* instruction, and the tape, the counter, the relative base, the input queue
\* and the output log are as they were.
C15_UndefinedModeFatal ==
    (engine = "day9" /\ BadModeDigit) =>
        /\ status = "fatal"
        /\ prev.op.tag = "Panic"
        /\ mem = prev.mem
        /\ ctr = prev.ctr
        /\ rel = prev.rel
        /\ input = prev.input
        /\ output = prev.output

\* a JumpIfTrue on the literal 0, which would not have used its target, has
\* stopped the engine on the mode digit 9 of that target
C15_Witness ==
    /\ engine = "day9" /\ BadModeDigit /\ POp = 5
    /\ PDigit(1) = 1 /\ PParam(1) = 0 /\ PDigit(2) = 9
    /\ prev.rel > 0 /\ prev.output # <<>>
    /\ status = "fatal" /\ ctr = prev.ctr

----------------------------------------------------------------------------
(* C16 *)

\* the parameters day5 reads as operands: its write targets have no mode
D5_ReadParams(op) ==
    CASE op \in {1, 2, 7, 8} -> {1, 2}
      [] op \in {5, 6} -> {1, 2}
      [] op = 4 -> {1}
      [] OTHER -> {}

\* C16: in day5, which defines the modes 0 and 1 only, an instruction with a
\* read parameter whose mode digit is 2 to 9 is a fatal error of the decoder;
\* the digit is not taken for one of the defined modes.
C16_UndefinedModeFatalDay5 ==
    (engine = "day5" /\ Decoded
       /\ \E k \in D5_ReadParams(POp) : PDigit(k) \in 2..9)
    => status = "fatal"

\* what day5 does instead: an Output whose mode digit is 2 to 9 writes its
\* parameter as a literal and the run goes on
C16_UndefinedModeImmediate ==
    (engine = "day5" /\ Decoded /\ POp = 4 /\ PDigit(1) \in 2..9) =>
        /\ status = "running"
        /\ output = Append(prev.output, Format(PParam(1)))
        /\ ctr = prev.ctr + 2

----------------------------------------------------------------------------
(* C17 *)

\* the last iteration found an instruction with a write target, all of whose
\* mode digits are modes of the engine and whose target is in Immediate mode
ImmediateTarget ==
    /\ Decoded
    /\ POp \in {1, 2, 3, 7, 8}
    /\ \A k \in 1..Arity(POp) : PDigit(k) \in DigitsOf(engine)
    /\ PDigit(TargetParam) = 1

\* C17: in day9 an Add, Mul, LessThan, Equals or Input whose write target is
\* in Immediate mode is a fatal error: the engine stops, no cell of the tape
\* is written and the tape is not grown (nor is the input read or the
\* counter moved).
C17_ImmediateTargetFatal ==
    (engine = "day9" /\ ImmediateTarget) =>
        /\ status = "fatal"
        /\ mem = prev.mem
        /\ Len(mem) = Len(prev.mem)
        /\ ctr = prev.ctr
        /\ rel = prev.rel
        /\ input = prev.input
        /\ output = prev.output

\* an Input with a value waiting in the queue and an Immediate target whose
\* value is beyond the tape has stopped the engine
C17_Witness ==
    /\ engine = "day9" /\ ImmediateTarget /\ POp = 3
    /\ PParam(1) >= Len(prev.mem) /\ prev.input # <<>>
    /\ status = "fatal" /\ input = prev.input /\ mem = prev.mem

----------------------------------------------------------------------------
(* C18 *)

\* the last iteration found a well-formed Input
InputStep == engine \in {"day9", "day5"} /\ WellFormed /\ POp = 3

\* C18: each executed Input takes exactly one value from the read of the I/O
\* boundary (the front of the queue, and nothing is written), trims the
\* whitespace around it ("8\n" is 8 and "-1\n" is -1), parses it as a signed
\* decimal integer, stores it at the target address and changes no other
\* cell; in day9, where every target that is not negative can be written,
\* "8\n" and "-1\n" are accepted.
C18_InputStores ==
    /\ (InputStep /\ status = "running") =>
          /\ prev.input # <<>>
          /\ input = Tail(prev.input)
          /\ output = prev.output
          /\ ctr = prev.ctr + 2
          /\ PAddr(1) >= 0
          /\ Len(mem) > PAddr(1)
          /\ Parse(Trim(Head(prev.input))).ok
          /\ At(mem, PAddr(1)) = Parse(Trim(Head(prev.input))).val
          /\ Head(prev.input) = <<"8", "\n">> => At(mem, PAddr(1)) = 8
          /\ Head(prev.input) = <<"-", "1", "\n">> => At(mem, PAddr(1)) = -1
          /\ \A i \in 0..(Len(prev.mem) - 1) :
                i # PAddr(1) => At(mem, i) = At(prev.mem, i)
    /\ (engine = "day9" /\ InputStep /\ PAddr(1) >= 0 /\ prev.input # <<>>
          /\ Head(prev.input) \in { <<"8", "\n">>, <<"-", "1", "\n">> }) =>
          status = "running"

\* an Input with a Relative target, under a relative base other than 0, has
\* stored the -1 it read as "-1\n"
C18_Witness ==
    /\ engine = "day9" /\ InputStep /\ status = "running"
    /\ PDigit(1) = 2 /\ prev.rel > 0
    /\ Head(prev.input) = <<"-", "1", "\n">>
    /\ At(mem, PAddr(1)) = -1 /\ Cell(prev.mem, PAddr(1)) # -1

----------------------------------------------------------------------------
(* C19 *)

\* the text at the front of the queue is no integer
Unparseable ==
    /\ prev.input # <<>>
    /\ \/ ~Parse(Trim(Head(prev.input))).ok
       \/ Head(prev.input) \in { <<"x">>, <<"\n">> }

\* the longer of the tape before and after the last iteration
Span == IF Len(mem) > Len(prev.mem) THEN Len(mem) ELSE Len(prev.mem)

\* C19: an Input that cannot obtain an integer is fatal: when the queue is
\* empty, or the text read does not parse as an integer, the engine stops, the
\* counter stays on the Input, and no value is stored: every address of the
\* tape, the target included, reads as it did before.
C19_InputFailureFatal ==
    (InputStep /\ (prev.input = <<>> \/ Unparseable)) =>
        /\ status = "fatal"
        /\ ctr = prev.ctr
        /\ rel = prev.rel
        /\ output = prev.output
        /\ PAddr(1) >= 0 =>
              \A i \in 0..(Span - 1) : Cell(mem, i) = Cell(prev.mem, i)

\* the second Input of a run whose script held one value, with a target
\* beyond the tape, has stopped the engine on the empty queue
C19_Witness ==
    /\ engine = "day9" /\ InputStep
    /\ script # <<>> /\ prev.input = <<>>
    /\ PAddr(1) >= Len(prev.mem)
    /\ status = "fatal" /\ ctr = prev.ctr /\ Cell(mem, PAddr(1)) = 0

----------------------------------------------------------------------------
(* C20 *)

\* the last iteration executed an Input, an Output
InputExecuted  == Decoded /\ engine # "day2" /\ POp = 3 /\ status = "running"
OutputExecuted == Decoded /\ engine # "day2" /\ POp = 4 /\ status = "running"

\* the number of strings of the script consumed before the last iteration
Consumed == Len(script) - Len(prev.input)

\* a text is the decimal text of an integer
IsDecimal(text) == Parse(text).ok /\ Format(Parse(text).val) = text

\* C20: with the scripted I/O boundary the k-th executed Input receives the
\* k-th string of the script: the queue starts as the script, is always what
\* is left of it, loses its front to each executed Input (which stores the
\* integer of that string) and is touched by nothing else (an Input that
\* fails on its text has consumed it); the log starts empty, gains at its end
\* the decimal text of the operand of each executed Output and is touched by
\* nothing else.  A run of Input a, Input b, Halt on the script "1\n", "5"
\* ends with 1 at a, 5 at b and an empty queue.
C20_ScriptedIo ==
    /\ prev.none => (input = script /\ output = <<>>)
    /\ Len(input) <= Len(script)
    /\ input = SubSeq(script, Len(script) - Len(input) + 1, Len(script))
    /\ \A i \in 1..Len(output) : IsDecimal(output[i])
    /\ InputExecuted =>
          /\ prev.input # <<>>
          /\ input = Tail(prev.input)
          /\ Head(prev.input) = script[Consumed + 1]
          /\ (WellFormed /\ PAddr(1) >= 0) =>
                Cell(mem, PAddr(1)) = Parse(Trim(script[Consumed + 1])).val
    /\ (Stepped /\ ~InputExecuted) =>
          \/ input = prev.input
          \/ /\ Decoded /\ POp = 3 /\ status = "fatal"
             /\ prev.input # <<>> /\ input = Tail(prev.input)
    /\ OutputExecuted =>
          /\ Len(output) = Len(prev.output) + 1
          /\ SubSeq(output, 1, Len(prev.output)) = prev.output
          /\ (WellFormed /\ ValidRead(1)) =>
                /\ output[Len(output)] = Format(PValue(1))
                /\ PValue(1) = -1 => output[Len(output)] = <<"-", "1">>
                /\ PValue(1) = 204 => output[Len(output)] = <<"2", "0", "4">>
    /\ (Stepped /\ ~OutputExecuted) => output = prev.output
    /\ (/\ status = "halted" /\ Len(program) = 5 /\ ctr = 4
        /\ program[1] = 3 /\ program[3] = 3
        /\ program[2] >= 5 /\ program[4] >= 5
        /\ script = << <<"1", "\n">>, <<"5">> >>) =>
          /\ input = <<>>
          /\ Cell(mem, program[4]) = 5
          /\ program[2] # program[4] => Cell(mem, program[2]) = 1

\* the second Input of a run has received the second string of the script,
\* the first one being stored elsewhere
C20_Witness ==
    /\ InputExecuted /\ WellFormed
    /\ Consumed = 1 /\ script = << <<"1", "\n">>, <<"5">> >>
    /\ PAddr(1) >= 0 /\ Cell(mem, PAddr(1)) = 5
    /\ \E a \in 0..(Len(mem) - 1) : a # PAddr(1) /\ At(mem, a) = 1 /\ Cell(program, a) # 1

\* an Output has added a second, different entry at the end of the log
C20_OutputWitness ==
    /\ OutputExecuted /\ Len(prev.output) >= 1
    /\ output[Len(output)] # output[1]

----------------------------------------------------------------------------
(* C21 *)

C21_GrowthWitness ==
    /\ harness = "twice" /\ run = 2 /\ status = "halted"
    /\ program = Quine /\ Len(mem) > Len(program)

----------------------------------------------------------------------------
(* C22 *)

\* pairwise coprime moduli whose product, above 10^32, exceeds every sum and
\* product of two WideOperands: a value below it with the right residue for
\* each modulus is the exact result
Moduli == {9967, 9973, 10007, 10009, 10037, 10039, 10061, 10067}

RECURSIVE Residue(_, _)
Residue(w, q) ==
    IF w = <<>> THEN 0 ELSE (Head(w) + (Limb % q) * Residue(Tail(w), q)) % q

WellFormedWide(w) ==
    /\ \A i \in 1..Len(w) : w[i] \in 0..(Limb - 1)
    /\ w # <<>> => w[Len(w)] # 0
    /\ Len(w) <= 8

\* the value of `w` is the sum (the product) of the values of `a` and `b`
ExactResult(tag, a, b, w) ==
    /\ WellFormedWide(w)
    /\ \A q \in Moduli :
          Residue(w, q) = IF tag = "Add"
                          THEN (Residue(a, q) + Residue(b, q)) % q
                          ELSE (Residue(a, q) * Residue(b, q)) % q

\* the decimal text of a cell has the cell's residues
RECURSIVE TextResidue(_, _)
TextResidue(t, q) ==
    IF t = <<>> THEN 0
    ELSE (10 * TextResidue(SubSeq(t, 1, Len(t) - 1), q)
          + (CHOOSE d \in 0..9 : DigitChars[d + 1] = t[Len(t)])) % q

WideArith == harness = "wide" /\ ~prev.none /\ prev.op.tag \in {"Add", "Mul"}

Case2 == <<Wide(1102), Wide(34915192), Wide(34915192), Wide(7), Wide(4), Wide(7),
           Wide(99), Wide(0)>>

Case3 == <<Wide(104), TwoTo50, Wide(99)>>

Text1219070632396864 ==
    <<"1", "2", "1", "9", "0", "7", "0", "6", "3", "2", "3", "9", "6", "8", "6", "4">>

Text1125899906842624 ==
    <<"1", "1", "2", "5", "8", "9", "9", "9", "0", "6", "8", "4", "2", "6", "2", "4">>

\* C22: Add and Mul of day9 store the exact sum and product of their two
\* operands, with no wrap-around at 32 or 64 bits, and Output writes the
\* exact decimal text of the value: [1102,34915192,34915192,7,4,7,99,0]
\* stores and outputs 1219070632396864, and [104,1125899906842624,99]
\* outputs 1125899906842624 unchanged.
C22_ExactArithmetic ==
    /\ WideArith =>
          /\ status = "running"
          /\ ExactResult(prev.op.tag,
                         W_Mode_val(prev.op.r1, prev.mem),
                         W_Mode_val(prev.op.r2, prev.mem),
                         At(mem, prev.op.o.v))
    /\ (harness = "wide" /\ ~prev.none /\ prev.op.tag = "Opt") =>
          /\ Len(output) = 1
          /\ Len(output[1]) <= 32
          /\ \A q \in Moduli :
                TextResidue(output[1], q) = Residue(W_Mode_val(prev.op.p, prev.mem), q)
    /\ (harness = "wide" /\ program = Case2 /\ status = "halted") =>
          /\ At(mem, 7) = <<6864, 3239, 706, 1219>>
          /\ output = <<Text1219070632396864>>
    /\ (harness = "wide" /\ program = Case3 /\ status = "halted") =>
          output = <<Text1125899906842624>>

\* test_op_extra_case_2 has run to its halt
C22_Witness ==
    /\ harness = "wide"
    /\ program = Case2
    /\ status = "halted"
    /\ Len(output) = 1

\* a product beyond 64 bits, 2^50 * 2^50, has been stored
C22_BeyondWitness ==
    /\ WideArith
    /\ prev.op.tag = "Mul"
    /\ W_Mode_val(prev.op.r1, prev.mem) = TwoTo50
    /\ W_Mode_val(prev.op.r2, prev.mem) = TwoTo50
    /\ Len(At(mem, prev.op.o.v)) = 8

----------------------------------------------------------------------------
(* C23 *)

\* a run of main of day2, or of a painter of main of day11, is about to
\* execute its first instruction
RunStarts == status = "running" /\ prev = NoPrev

\* C23: every run of main starts from the program exactly as it was parsed
\* (in day2 apart from cells 1 and 2, which hold the noun and the verb of
\* the run): what a run of the sweep of day2, or the first painter of
\* day11, wrote to its tape is not in the tape a later run starts from.
C23_RunsStartFromParsed ==
    /\ (harness = "day2" /\ RunStarts) =>
          /\ Len(mem) = Len(program)
          /\ \A i \in 1..Len(mem) :
                mem[i] = CASE i = 2 -> noun [] i = 3 -> verb [] OTHER -> program[i]
    /\ (harness = "day11" /\ RunStarts) => mem = program

\* a run of the sweep starts after a run that changed cell 0 of its tape
C23_Witness ==
    /\ harness = "day2"
    /\ RunStarts
    /\ run >= 3
    /\ first.mem[1] # program[1]
    /\ mem[1] = program[1]

\* the second painter starts after a first painter that wrote to its tape
C23_PainterWitness ==
    /\ harness = "day11"
    /\ RunStarts
    /\ run = 2
    /\ first.mem # program

----------------------------------------------------------------------------
(* C24 *)

\* the messages the tracker has taken from its channel so far
Received == Len(output) - Len(toTracker)

\* C24: the tracker sends the initial color before it receives anything,
\* then exactly one message after each (color, turn) pair it received and
\* none otherwise; the pairs are the brain's outputs two by two in order;
\* the brain's first Input receives the initial color and its (k+1)-th
\* Input the reply to its k-th pair.
C24_Handshake ==
    engine = "day11" =>
      /\ tpc = "init" => (sent = <<>> /\ Received = 0)
      /\ sent # <<>> => sent[1].text = Line(Color_repr(init))
      /\ Len(sent) = Len(pairs) + (IF tpc \in {"init", "reply"} THEN 0 ELSE 1)
      /\ Received = 2 * Len(pairs)
                      + (IF tpc \in {"turn", "panic: turn", "panic: color"} THEN 1
                         ELSE IF tpc = "panic: turn text" THEN 2 ELSE 0)
      /\ \A k \in 1..Len(pairs) :
            /\ pairs[k].color = Color_from_str(output[2 * k - 1]).val
            /\ pairs[k].turn = Turn_from_str(output[2 * k]).val
      /\ Len(reads) <= Len(sent)
      /\ \A j \in 1..Len(reads) : sent[j].ok /\ reads[j] = sent[j].text
      /\ Len(reads) + Len(toBrain) = Cardinality({j \in 1..Len(sent) : sent[j].ok})

\* the brain has read the initial color and the replies to four pairs, and
\* the tracker has handled five
C24_Witness ==
    /\ engine = "day11"
    /\ Len(pairs) = 5
    /\ Len(reads) = 5
    /\ Len(sent) = 6

----------------------------------------------------------------------------
(* C25 *)

\* the facing after the first k pairs, counted in quarter turns to the right
\* of Up
RECURSIVE Heading(_)
Heading(k) ==
    IF k = 0 THEN 0
    ELSE (Heading(k - 1) + (IF pairs[k].turn = "Right" THEN 1 ELSE 3)) % 4

\* one step from p with heading h: 0 up, 1 right, 2 down, 3 left
Step(p, h) ==
    <<p[1] + (CASE h = 1 -> 1 [] h = 3 -> -1 [] OTHER -> 0),
      p[2] + (CASE h = 0 -> 1 [] h = 2 -> -1 [] OTHER -> 0)>>

\* where the tracker is after the first k pairs
RECURSIVE Place(_)
Place(k) == IF k = 0 THEN <<0, 0>> ELSE Step(Place(k - 1), Heading(k))

\* the pairs among the first k that were recorded at p
RecordedAt(p, k) == {j \in 1..k : pairs[j].at = p}

Max(S) == CHOOSE x \in S : \A y \in S : y <= x

\* the text of the color most recently recorded at p among the first k
\* pairs, and "0" when there is none
LastRecorded(p, k) ==
    IF RecordedAt(p, k) = {} THEN "0"
    ELSE Color_repr(pairs[Max(RecordedAt(p, k))].color)

\* C25: for each pair the tracker records the received color at the
\* position it is at, replacing a color recorded there before, then turns
\* and moves one step in the new facing, and replies with the color most
\* recently recorded at the new position, or "0" when none was; the
\* initial color is never stored in the map.
C25_RecordTurnMoveReply ==
    engine = "day11" =>
      /\ \A k \in 1..Len(pairs) : pairs[k].at = Place(k - 1)
      /\ pos = Place(Len(pairs))
      /\ direction = <<"Up", "Right", "Down", "Left">>[Heading(Len(pairs)) + 1]
      /\ DOMAIN visited = {pairs[k].at : k \in 1..Len(pairs)}
      /\ \A p \in DOMAIN visited :
            Color_repr(visited[p]) = LastRecorded(p, Len(pairs))
      /\ \A k \in 1..Len(pairs) :
            Len(sent) > k => sent[k + 1].text = <<LastRecorded(Place(k), k), "\n">>
      /\ pairs = <<>> => visited = NoMap

\* the tracker came back to its first panel, recorded a different color
\* there, and an earlier reply was the color recorded at a visited panel
C25_Witness ==
    /\ engine = "day11"
    /\ Len(pairs) = 5
    /\ pairs[5].at = <<0, 0>>
    /\ pairs[5].color # pairs[1].color
    /\ visited[<<0, 0>>] = pairs[5].color
    /\ Len(sent) = 6
    /\ sent[5].text = <<"1", "\n">>

\* a painter started on White has handled no pair and its map is empty
C25_InitialWitness ==
    /\ engine = "day11"
    /\ init = "White"
    /\ tpc = "returned"
    /\ pairs = <<>>
    /\ sent # <<>>

----------------------------------------------------------------------------
(* C26 *)

\* the brain is at an Output, the tracker at a send
BrainSends   == status = "running" /\ Fetch.tag = "Opt"
TrackerSends == tpc \in {"init", "reply"}

C26_TrackerWitness ==
    /\ engine = "day11"
    /\ tpc = "reply"
    /\ ~Brain_gone
    /\ Len(toBrain) >= 1

----------------------------------------------------------------------------
(* C27 *)

\* the panics of the tracker on a channel whose other end the brain dropped
StoppedBrainPanics == {"panic: Failed to send initializing color", "panic: turn"}

\* C27: once the brain has halted and its ends of the channels are closed,
\* the tracker leaves its loop without an error and returns the map, and
\* Painter::run returns that map: the tracker never fails because the
\* brain stopped.
C27_TrackerSurvivesHalt ==
    (engine = "day11" /\ status = "halted") =>
      /\ tpc \notin StoppedBrainPanics
      /\ painted # NoPainted => painted.state = "map"

----------------------------------------------------------------------------
(* C28 *)

\* the same painter has been run twice on the same color and both runs
\* returned a map
BothReturned ==
    /\ harness = "repaint"
    /\ run = 2
    /\ first.painted.state = "map"
    /\ painted.state = "map"

\* whether the last send of a run reached the brain
LastSendOk(s) == s # <<>> /\ s[Len(s)].ok

\* C28: for a fixed brain program and initial color the map returned by
\* Painter::run is the same under every interleaving of the brain and the
\* tracker, also when in one the tracker's last reply is sent before the
\* brain dropped its receiver and in the other after.
C28_SameMapEveryInterleaving ==
    BothReturned =>
      /\ init = first.init
      /\ DOMAIN painted.map = DOMAIN first.painted.map
      /\ \A p \in DOMAIN painted.map : painted.map[p] = first.painted.map[p]

\* the same for the brains that read before each pair they write
C28_SameMapWhenReadingFirst ==
    (BothReturned /\ program \in {Walker, Follower}) => painted.map = first.painted.map

\* two runs of the brain that walks: in the first the last reply reached
\* the channel, in the second the receiver was gone
C28_RaceWitness ==
    /\ BothReturned
    /\ program = Walker
    /\ LastSendOk(first.sent)
    /\ ~LastSendOk(sent)
    /\ Cardinality(DOMAIN painted.map) = 4
    /\ painted.map = first.painted.map

----------------------------------------------------------------------------
(* C29 *)

\* the last send of the tracker was a reply and it failed
ReplyFailed == engine = "day11" /\ Len(sent) >= 2 /\ ~sent[Len(sent)].ok

\* the last step of the brain was an Output
WroteLast == engine = "day11" /\ ~prev.none /\ prev.op.tag = "Opt"

C29_EngineWitness ==
    /\ WroteLast
    /\ status = "stopped"
    /\ Tracker_gone

----------------------------------------------------------------------------
(* C30 *)

\* the displacement of a route: its distance along its direction
Displacement(route) ==
    CASE route.dir = "Up"    -> <<0, route.n>>
      [] route.dir = "Down"  -> <<0, -route.n>>
      [] route.dir = "Left"  -> <<-route.n, 0>>
      [] route.dir = "Right" -> <<route.n, 0>>

AxisAligned(seg) == seg[1][1] = seg[2][1] \/ seg[1][2] = seg[2][2]

TestRoutes ==
    <<[dir |-> "Up", n |-> 4], [dir |-> "Right", n |-> 4],
      [dir |-> "Down", n |-> 4], [dir |-> "Left", n |-> 4]>>

\* C30: after any sequence of calls of Runner::follow on a new Runner the
\* path holds exactly one segment per call, in the order of the calls; the
\* first segment starts at (0,0) and every later one where the one before
\* it ends; the cursor is the end of the last segment; each segment is
\* axis-aligned, its length the distance of its route.
C30_PathFollowsRoutes ==
    harness = "runner" =>
      /\ Len(path) = Len(routes)
      /\ path # <<>> => path[1][1] = <<0, 0>>
      /\ \A i \in 2..Len(path) : path[i][1] = path[i - 1][2]
      /\ cursor = IF path = <<>> THEN <<0, 0>> ELSE path[Len(path)][2]
      /\ \A i \in 1..Len(path) :
            /\ AxisAligned(path[i])
            /\ Segment_length(path[i]) = routes[i].n
            /\ path[i][2][1] - path[i][1][1] = Displacement(routes[i])[1]
            /\ path[i][2][2] - path[i][1][2] = Displacement(routes[i])[2]
      /\ routes = TestRoutes =>
            path = << <<<<0, 0>>, <<0, 4>>>>, <<<<0, 4>>, <<4, 4>>>>,
                      <<<<4, 4>>, <<4, 0>>>>, <<<<4, 0>>, <<0, 0>>>> >>

\* the four calls of the test have been made
C30_Witness ==
    /\ harness = "runner"
    /\ routes = TestRoutes
    /\ Len(path) = 4
    /\ cursor = <<0, 0>>

----------------------------------------------------------------------------
(* C31 *)

\* the paths of child indices to the nodes of a tree
RECURSIVE Node_paths(_)
Node_paths(node) ==
    {<<>>} \cup UNION { { <<i>> \o q : q \in Node_paths(node.children[i]) } :
                          i \in 1..Len(node.children) }

RECURSIVE Node_at(_, _)
Node_at(node, q) == IF q = <<>> THEN node ELSE Node_at(node.children[Head(q)], Tail(q))

IsPrefix(a, b) == Len(a) <= Len(b) /\ SubSeq(b, 1, Len(a)) = a

\* a comes before b in depth-first pre-order
Before(a, b) ==
    /\ a # b
    /\ \/ IsPrefix(a, b)
       \/ \E i \in 1..Len(a) :
             /\ i <= Len(b)
             /\ SubSeq(a, 1, i - 1) = SubSeq(b, 1, i - 1)
             /\ a[i] < b[i]

\* the nodes of the receiver named like other, before the call
Named == { q \in Node_paths(call.self) : Node_at(call.self, q).val = call.other.val }

FirstNamed == CHOOSE q \in Named : \A r \in Named \ {q} : Before(q, r)

Merged == harness = "day6" /\ ~call.none

\* C31: Node::merge(other) returns true exactly when the receiver's tree
\* has a node named like other; then the children of other are appended,
\* in order and after the children it has, to the first such node in
\* depth-first pre-order, the rest of the tree is as before and other is
\* left without children; when it returns false both trees are unchanged.
C31_MergeAppendsToFirstMatch ==
    Merged =>
      /\ call.ret = (Named # {})
      /\ call.ret =>
            /\ call.left = [val |-> call.other.val, children |-> <<>>]
            /\ Node_at(tree, FirstNamed).children
                  = Node_at(call.self, FirstNamed).children \o call.other.children
            /\ \A q \in Node_paths(call.self) :
                  IF IsPrefix(q, FirstNamed)
                  THEN /\ Node_at(tree, q).val = Node_at(call.self, q).val
                       /\ q # FirstNamed =>
                             Len(Node_at(tree, q).children)
                               = Len(Node_at(call.self, q).children)
                  ELSE Node_at(tree, q) = Node_at(call.self, q)
            /\ Node_size(tree) = Node_size(call.self) + Node_size(call.other) - 1
      /\ ~call.ret => (tree = call.self /\ call.left = call.other)
      /\ (call.self = Node_new("A", "B") /\ call.other = Node_new("B", "C")) =>
            tree = [val |-> "A", children |-> <<Node_new("B", "C")>>]

\* a merge into a tree with two nodes of the wanted name, the first of them
\* below the root, of a node that has children
C31_Witness ==
    /\ Merged
    /\ call.ret
    /\ Cardinality(Named) >= 2
    /\ FirstNamed # <<>>
    /\ call.other.children # <<>>
    /\ Node_at(call.self, FirstNamed).children # <<>>

\* a merge that found no node of the wanted name
C31_FalseWitness ==
    /\ Merged
    /\ ~call.ret
    /\ call.other.children # <<>>

----------------------------------------------------------------------------
(* C32 *)

\* the decimal digits of the password, from left to right
PasswordDigits ==
    LET t == Digits(password) IN [i \in 1..Len(t) |-> DigitValue(t[i])]

NeverDecrease(d) == \A i \in 1..(Len(d) - 1) : d[i] <= d[i + 1]

AdjacentEqual(d) == \E i \in 1..(Len(d) - 1) : d[i] = d[i + 1]

\* some digit stands in a run of exactly two
RunOfTwo(d) ==
    \E i \in 1..(Len(d) - 1) :
        /\ d[i] = d[i + 1]
        /\ i > 1 => d[i - 1] # d[i]
        /\ i + 2 <= Len(d) => d[i + 2] # d[i]

PasswordChecked == harness = "day4" /\ ~valid.none

\* C32: is_valid(n) holds iff the decimal digits of n never decrease from
\* left to right and two adjacent digits are equal; is_valid2(n) holds iff
\* the digits never decrease and some digit occurs in a run of exactly
\* two.  111111 and 111122 satisfy is_valid, 123789 and 223450 do not;
\* 112233 and 111122 satisfy is_valid2, 123444 does not.
C32_ValidPasswords ==
    PasswordChecked =>
      /\ valid.is_valid
           = (NeverDecrease(PasswordDigits) /\ AdjacentEqual(PasswordDigits))
      /\ valid.is_valid2
           = (NeverDecrease(PasswordDigits) /\ RunOfTwo(PasswordDigits))
      /\ password \in {111111, 111122} => valid.is_valid
      /\ password \in {123789, 223450} => ~valid.is_valid
      /\ password \in {112233, 111122} => valid.is_valid2
      /\ password = 123444 => ~valid.is_valid2

\* a password with a run of three and a run of two has been checked
C32_Witness ==
    /\ PasswordChecked
    /\ password = 111122
    /\ valid.is_valid
    /\ valid.is_valid2

\* a password that is_valid accepts and is_valid2 rejects
C32_RunWitness ==
    /\ PasswordChecked
    /\ password = 123444
    /\ valid.is_valid
    /\ ~valid.is_valid2

----------------------------------------------------------------------------
(* C33 *)

\* max(floor(m / 3) - 2, 0)
ThirdLessTwo(m) == LET v == (m \div 3) - 2 IN IF v > 0 THEN v ELSE 0

\* the k-th of the successive values from m
RECURSIVE Successive(_, _)
Successive(k, m) == IF k = 0 THEN m ELSE ThirdLessTwo(Successive(k - 1, m))

RECURSIVE SumOfSuccessive(_, _)
SumOfSuccessive(k, m) ==
    IF k = 0 THEN 0 ELSE SumOfSuccessive(k - 1, m) + Successive(k, m)

\* more steps than a chain from a mass of the model has
MaxChain == 12

\* all_fuel_for has computed k of the successive values and their sum
ComputedFuel(k) ==
    /\ last_sum = Successive(k, mass)
    /\ sum = SumOfSuccessive(k, mass)
    /\ \A j \in 1..(k - 1) : Successive(j, mass) > 0

FuelSteps ==
    /\ fpc \in {"while", "returned"} => \E k \in 1..MaxChain : ComputedFuel(k)
    /\ fpc = "returned" => last_sum = 0
    /\ (fpc = "returned" /\ mass = 14) => sum = 2
    /\ (fpc = "returned" /\ mass = 1969) => sum = 966
    /\ (fpc = "returned" /\ mass = 100756) => sum = 50346
    /\ Fuel_for(mass) = ThirdLessTwo(mass)
    /\ Fuel_for(last_sum) = ThirdLessTwo(last_sum)

\* C33: fuel_for(m) is max(floor(m / 3) - 2, 0) for every mass m, and
\* all_fuel_for(m) terminates for every m and returns the sum of the
\* successive values fuel_for(m), fuel_for(fuel_for(m)), ... up to and
\* including the first 0: all_fuel_for(14) = 2, all_fuel_for(1969) = 966,
\* all_fuel_for(100756) = 50346.
C33_FuelTerminates == [](harness = "day1" => FuelSteps) /\ <>(fpc = "returned")

\* all_fuel_for(100756) has returned 50346
C33_Witness ==
    /\ harness = "day1"
    /\ fpc = "returned"
    /\ mass = 100756
    /\ sum = 50346
    /\ last_sum = 0

----------------------------------------------------------------------------
(* C34 *)

\* the brain halted and its run executed no Input
HaltedUnread == engine = "day11" /\ status = "halted" /\ reads = <<>>

\* C34: for a brain that halts without ever executing Input, such as [99],
\* the tracker's send of the initial color does not fail fatally when the
\* brain has already finished and dropped its receiver, and for [99]
\* Painter::run returns a map under every interleaving of the two threads.
C34_UnreadBrainReturns ==
    /\ HaltedUnread => tpc # "panic: Failed to send initializing color"
    /\ (HaltedUnread /\ program = <<99>> /\ painted # NoPainted) =>
          painted.state = "map"

\* the interleaving of [99] in which the tracker sends before the brain
\* ends: the empty map is returned
C34_SentFirst ==
    /\ HaltedUnread
    /\ program = <<99>>
    /\ sent = <<[text |-> Line(Color_repr(init)), ok |-> TRUE]>>
    /\ painted = [state |-> "map", map |-> NoMap]

----------------------------------------------------------------------------
(* C35 *)

\* the tracker holds a color whose turn has not arrived, and the brain's
\* output channel is closed and empty
ClosedMidCycle == engine = "day11" /\ tpc = "turn" /\ toTracker = <<>> /\ Brain_gone

\* where the tracker stands when it is over
TrackerEnds ==
    engine = "day11" =>
      \* a clean end is at a cycle boundary, on a closed channel
      /\ tpc = "returned" => (Brain_gone /\ Received = 2 * Len(pairs))
      \* the fatal end on the missing turn is in the middle of a cycle
      /\ tpc = "panic: turn" =>
            (Brain_gone /\ toTracker = <<>> /\ Received = 2 * Len(pairs) + 1)
      \* the map is returned by a tracker that ended cleanly, and by no other
      /\ painted # NoPainted =>
            (painted.state = "map" <=> tpc = "returned")
      /\ (painted # NoPainted /\ tpc = "panic: turn") =>
            painted = [state |-> "panic: Could not join thread"]
      /\ ClosedMidCycle => painted = NoPainted

\* C35: the tracker terminates cleanly only when the brain's output channel
\* closes at a cycle boundary; when it closes after the tracker received a
\* color and before the matching turn arrives, the tracker aborts with a
\* fatal error instead of returning its map, and Painter::run fails at the
\* join.
C35_MidCycleCloseIsFatal ==
    /\ [](TrackerEnds)
    /\ [][ClosedMidCycle => tpc' = "panic: turn"]_tpc

\* the brain [104,1,99] halted after its color: the tracker panicked on the
\* turn and the join failed
C35_Witness ==
    /\ engine = "day11"
    /\ program = <<104, 1, 99>>
    /\ status = "halted"
    /\ color = "White"
    /\ tpc = "panic: turn"
    /\ painted = [state |-> "panic: Could not join thread"]

\* a brain that halted after three outputs while the tracker, its reply to
\* the first pair having failed, ended cleanly at the cycle boundary
C35_BoundaryWitness ==
    /\ engine = "day11"
    /\ Len(output) = 3
    /\ status = "halted"
    /\ tpc = "returned"
    /\ Len(pairs) = 1
    /\ painted.state = "map"

----------------------------------------------------------------------------
(* C36 *)

\* the brain is at an Input with nothing to read from a tracker that lives
BrainWaits ==
    /\ engine = "day11"
    /\ status = "running"
    /\ Fetch.tag = "Ipt"
    /\ toBrain = <<>>
    /\ ~Tracker_gone

\* the tracker is at a recv with nothing to read from a brain that lives
TrackerWaits ==
    /\ engine = "day11"
    /\ tpc \in {"color", "turn"}
    /\ toTracker = <<>>
    /\ ~Brain_gone

\* the brain's run is over, track_painter returned and the join gave the map
BothFinished ==
    /\ status \in {"halted", "stopped"}
    /\ tpc = "returned"
    /\ painted.state = "map"

\* C36: for a brain whose I/O is one Input followed by repetitions of
\* (Output, Output, Input) and that halts after an Input or after a pair,
\* the brain and the tracker are never both waiting to receive, and both
\* threads eventually finish, in the first run and in the second.
C36_NoMutualWait ==
    /\ [](~(BrainWaits /\ TrackerWaits))
    /\ <>(run = 1 /\ BothFinished)
    /\ <>(run = 2 /\ BothFinished)

\* the brain waits for the initial color the tracker has not sent yet
C36_Witness ==
    /\ program \in Protocol
    /\ BrainWaits
    /\ tpc = "init"

\* the tracker waits for the color while the brain, having read, computes
C36_TrackerWitness ==
    /\ program = Walker
    /\ TrackerWaits
    /\ Len(pairs) = 4
    /\ ~BrainWaits

\* both threads of the second run of main have finished
C36_FinishedWitness ==
    /\ program = Walker
    /\ run = 2
    /\ BothFinished
    /\ Len(pairs) = 5

----------------------------------------------------------------------------
(* C37 *)

Abs(x) == IF x < 0 THEN -x ELSE x

\* the Manhattan distance of two positions
Manhattan(p, q) == Abs(p[1] - q[1]) + Abs(p[2] - q[2])

\* the position of the robot after k completed cycles of the tracker: the
\* one the next cycle started at, or the current one
After(k) == IF k < Len(pairs) THEN pairs[k + 1].at ELSE pos

\* the cycles the tracker has completed
Cycles == Len(pairs)

\* the tracker is between two cycles, or over
BetweenCycles == engine = "day11" /\ tpc \in {"reply", "color", "turn", "returned"} \cup TrackerPanics

\* C37: after n completed cycles of the tracker the robot's position
\* differs from the one after n - 1 cycles by exactly one unit along exactly
\* one axis, so it is at Manhattan distance at most n from the origin; the
\* map has at most n keys, and every key is a position the robot was at
\* when a completed cycle started: the position the last move reached is in
\* the map only if the robot was there before.
C37_OneStepPerCycle ==
    BetweenCycles =>
      /\ After(0) = <<0, 0>>
      /\ \A k \in 1..Cycles :
            /\ Manhattan(After(k), After(k - 1)) = 1
            /\ After(k)[1] = After(k - 1)[1] \/ After(k)[2] = After(k - 1)[2]
      /\ Manhattan(pos, <<0, 0>>) <= Cycles
      /\ Cardinality(DOMAIN visited) <= Cycles
      /\ \A p \in DOMAIN visited : \E k \in 1..Cycles : After(k - 1) = p
      /\ pos \in DOMAIN visited => \E k \in 1..Cycles : After(k - 1) = pos

\* after four cycles the robot is back on the panel it started on, which is
\* in the map, and the map has four keys
C37_Witness ==
    /\ BetweenCycles
    /\ Cycles = 4
    /\ pos = <<0, 0>>
    /\ pos \in DOMAIN visited
    /\ Cardinality(DOMAIN visited) = 4

\* after five cycles the map has four keys: one panel was painted twice, and
\* the robot is on a panel of the map
C37_FewerKeysWitness ==
    /\ BetweenCycles
    /\ Cycles = 5
    /\ Cardinality(DOMAIN visited) = 4
    /\ pos = <<1, 0>>
    /\ pos \in DOMAIN visited

\* the position the last move reached has not been occupied before and is
\* not in the map
C37_NewPanelWitness ==
    /\ BetweenCycles
    /\ Cycles = 2
    /\ pos \notin DOMAIN visited
    /\ Manhattan(pos, <<0, 0>>) = 2

----------------------------------------------------------------------------
(* C38 *)

Turns == {"Left", "Right"}

\* n times the same turn from a facing
RECURSIVE Turned(_, _, _)
Turned(d, t, n) == IF n = 0 THEN d ELSE Direction_turn(Turned(d, t, n - 1), t)

Opposite(d) ==
    CASE d = "Up" -> "Down" [] d = "Down" -> "Up"
      [] d = "Left" -> "Right" [] d = "Right" -> "Left"

Vertical(d) == d \in {"Up", "Down"}

\* the turns are rotations by a quarter from the facing d
QuarterTurns(d) ==
    /\ Direction_turn(Direction_turn(d, "Left"), "Right") = d
    /\ Direction_turn(Direction_turn(d, "Right"), "Left") = d
    /\ \A t \in Turns :
          /\ Turned(d, t, 4) = d
          /\ Turned(d, t, 2) = Opposite(d)
          /\ Vertical(Direction_turn(d, t)) <=> ~Vertical(d)

\* the turns the tracker has made, to the right less to the left
RECURSIVE RightTurns(_)
RightTurns(k) ==
    IF k = 0 THEN 0
    ELSE RightTurns(k - 1) + (IF pairs[k].turn = "Right" THEN 1 ELSE -1)

\* the facing reached from Up by q quarter-turns to the right
Clockwise(q) == <<"Up", "Right", "Down", "Left">>[(q % 4) + 1]

\* C38: Direction::turn is a quarter-turn rotation. From every facing, here
\* every facing the tracker takes, a Left turn followed by a Right turn, or
\* Right then Left, restores the facing; four Left turns or four Right
\* turns restore it; two equal turns give the opposite facing, and every
\* single turn switches between a vertical and a horizontal facing. The
\* tracker's facing is Up rotated by its turns.
C38_QuarterTurns ==
    engine = "day11" =>
      /\ QuarterTurns(direction)
      /\ direction = Clockwise(RightTurns(Len(pairs)))
      /\ Vertical(direction) <=> Len(pairs) % 2 = 0

\* the tracker has turned right, right and right: it faces Left
C38_Witness ==
    /\ engine = "day11"
    /\ Len(pairs) = 3
    /\ \A k \in 1..3 : pairs[k].turn = "Right"
    /\ direction = "Left"

\* the tracker has turned left, then right, and faces Up again
C38_RestoredWitness ==
    /\ engine = "day11"
    /\ Len(pairs) = 2
    /\ pairs[1].turn = "Left"
    /\ pairs[2].turn = "Right"
    /\ direction = "Up"

\* the tracker has turned left from Up and faces Left
C38_LeftWitness ==
    /\ engine = "day11"
    /\ Len(pairs) = 1
    /\ pairs[1].turn = "Left"
    /\ direction = "Left"
    /\ pos = <<-1, 0>>

----------------------------------------------------------------------------
(* C39 *)

\* the parameters of the instruction a word of day9 encodes
Parameters(word) ==
    LET op == Rem(word, 100)
    IN  CASE op \in {1, 2, 7, 8} -> 3
          [] op \in {5, 6}       -> 2
          [] op \in {3, 4, 9}    -> 1
          [] OTHER               -> 0

\* the last step of day9 decoded at a counter that is beyond the tape
CounterBeyond ==
    /\ engine = "day9"
    /\ ~prev.none
    /\ prev.ctr >= Len(prev.mem)

\* the last step of day9 decoded an instruction of which a parameter cell
\* is beyond the tape
ParameterBeyond ==
    /\ engine = "day9"
    /\ ~prev.none
    /\ prev.ctr < Len(prev.mem)
    /\ prev.ctr + Parameters(At(prev.mem, prev.ctr)) >= Len(prev.mem)

\* the step was a panic of the decoder: nothing was read, written or moved
DecodeFatal ==
    /\ status = "fatal"
    /\ prev.op.tag = "Panic"
    /\ mem = prev.mem
    /\ ctr = prev.ctr
    /\ rel = prev.rel
    /\ input = prev.input
    /\ output = prev.output

\* the last step was an Output of a positional operand beyond the tape
OperandBeyond ==
    /\ engine = "day9"
    /\ ~prev.none
    /\ prev.op.tag = "Opt"
    /\ prev.op.p.kind = "Position"
    /\ prev.op.p.v >= Len(prev.mem)

\* C39: in the day9 engine the default of 0 for a read beyond the tape
\* applies to resolved operand addresses only. When the program counter
\* itself, or a parameter cell of the instruction at the program counter,
\* is at or beyond the end of the tape, as on the tape [4] or after a jump
\* to an address >= the tape length, decoding is fatal and no 0 is read.
C39_DecodeBeyondTapeIsFatal ==
    /\ CounterBeyond =>
          DecodeFatal /\ prev.op.msg = "index out of bounds"
    /\ ParameterBeyond =>
          /\ DecodeFatal
          /\ prev.op.msg \in {"index out of bounds", "Unexpected mode param"}
    /\ OperandBeyond =>
          status = "running" /\ output = Append(prev.output, <<"0">>)

\* the tape [4]: the parameter of Output is beyond the tape
C39_Witness ==
    /\ ParameterBeyond
    /\ prev.mem = <<4>>
    /\ status = "fatal"
    /\ output = <<>>

\* a jump to the address that is the tape length, then the decoding there
C39_JumpWitness ==
    /\ CounterBeyond
    /\ program = <<1105, 1, 3>>
    /\ prev.ctr = 3
    /\ status = "fatal"

\* a jump into the cells a write has added, to an instruction whose
\* parameters are beyond them
C39_GrownWitness ==
    /\ ParameterBeyond
    /\ program = <<1101, 1, 1, 9, 1105, 1, 9>>
    /\ Len(prev.mem) = 10
    /\ prev.ctr = 9
    /\ status = "fatal"

\* an Output of a cell beyond the tape has written 0
C39_OperandWitness ==
    /\ OperandBeyond
    /\ status = "running"
    /\ output = <<<<"0">>>>

----------------------------------------------------------------------------
(* C40 *)

FixedTape == engine \in {"day2", "day5"}

\* the last step of day2 or day5 was at an instruction that writes
Writes ==
    /\ FixedTape
    /\ ~prev.none
    /\ prev.op.tag \in {"Add", "Mul", "Les", "Eql", "Ipt"}

\* the cell of the tape that holds the write target of the instruction
TargetCell == IF prev.op.tag = "Ipt" THEN prev.ctr + 1 ELSE prev.ctr + 3

\* the write target: the content of that cell taken as an address
WriteTarget == AsUsize(At(prev.mem, TargetCell))

\* the mode digit that belongs to the write target in the word of day5
TargetDigit ==
    LET word == AsUsize(At(prev.mem, prev.ctr))
    IN  IF prev.op.tag = "Ipt" THEN (word \div 100) % 10 ELSE (word \div 10000) % 10

\* the cells of the tape other than the one at address a are as before
OthersKept(a) ==
    \A i \in 0..(Len(mem) - 1) : i # a => At(mem, i) = At(prev.mem, i)

\* C40: in the day2 and day5 engines the tape has the same length in every
\* reachable state of a run. A write (Add, Mul, LessThan, Equals, Input)
\* whose target address is at or beyond the tape length ends the run as
\* fatal and the tape does not grow; in day5 the write target is taken as a
\* positional address whatever its mode digit.
C40_TapeLengthFixed ==
    /\ FixedTape => Len(mem) = Len(program)
    /\ (Writes /\ WriteTarget >= Len(prev.mem)) =>
          status = "fatal" /\ mem = prev.mem /\ ctr = prev.ctr
    /\ (Writes /\ status # "fatal") =>
          /\ WriteTarget < Len(prev.mem)
          /\ OthersKept(WriteTarget)
          /\ prev.op.tag \in {"Les", "Eql"} => At(mem, WriteTarget) \in {0, 1}
          /\ (prev.op.tag = "Ipt" /\ prev.input # <<>>) =>
                At(mem, WriteTarget) = Parse(Trim(Head(prev.input))).val

\* day2: an Add whose target is the tape length has ended the run
C40_Witness ==
    /\ engine = "day2"
    /\ Writes
    /\ prev.op.tag = "Add"
    /\ WriteTarget = Len(prev.mem)
    /\ status = "fatal"
    /\ mem = program

\* day5: a write with mode digit 1 on its target has stored at the address
\* the parameter holds, a cell other than the parameter's own
C40_DigitWitness ==
    /\ engine = "day5"
    /\ Writes
    /\ prev.op.tag = "Mul"
    /\ TargetDigit = 1
    /\ status = "running"
    /\ WriteTarget # TargetCell
    /\ At(mem, WriteTarget) # At(prev.mem, WriteTarget)
    /\ At(mem, TargetCell) = At(prev.mem, TargetCell)

\* day5: an Input with mode digit 1 whose target is beyond the tape has
\* ended the run after taking its line
C40_InputWitness ==
    /\ engine = "day5"
    /\ Writes
    /\ prev.op.tag = "Ipt"
    /\ TargetDigit = 1
    /\ WriteTarget >= Len(prev.mem)
    /\ status = "fatal"
    /\ Len(input) < Len(prev.input)

============================================================================
